---- MODULE Spec2Model ----
(***************************************************************************)
(* A model of the go-mem0 client: the request builder (preparePayload,     *)
(* prepareParams), the transport (fetchWithErrorHandling), the             *)
(* connectivity probe (Ping) and the public operations of MemoryClient.    *)
(*                                                                         *)
(* Go values of dynamic type (interface{}, decoded JSON, optional pointer  *)
(* fields) are tagged records, so that a string and a number with the same *)
(* text stay different values.  An unset pointer, a nil interface and a    *)
(* JSON null are all NilV.                                                 *)
(*                                                                         *)
(* Four specifications share the variables: Spec (one caller, one call at  *)
(* a time), SpecBuilder (the request builder on its own), SpecRace (two    *)
(* goroutines racing the probe on one client) and SpecRetry (DeleteUsers   *)
(* called again against a server that keeps the entities).                 *)
(***************************************************************************)
EXTENDS Integers, Sequences, FiniteSets, TLC

VARIABLES
    client,     \* the MemoryClient the application holds (live = FALSE: none)
    call,       \* the public operation the caller last invoked, with its inputs
    net,        \* the HTTP exchanges of that call, in the order they were issued
    ret,        \* what that call returned
    options,    \* request builder: the MemoryOptions given to the builder
    messages,   \* request builder: the message list given to preparePayload
    payload,    \* request builder: the body built by preparePayload
    params      \* request builder: the url.Values built by prepareParams

vars == <<client, call, net, ret, options, messages, payload, params>>
clientVars == <<client, call, net, ret>>
builderVars == <<options, messages, payload, params>>

(***************************************************************************)
(* Bounds                                                                  *)
(***************************************************************************)
\* the request builder is explored on every MemoryOptions with at most this
\* many fields set
MaxSetFields == 2
\* longest message list given to preparePayload / Add
MaxMsgs == 1
\* longest entity list the server returns to Users / DeleteUsers
MaxEntities == 2
\* the longest batch handed to BatchUpdate and BatchDelete
MaxBatch == 2
\* the most calls of DeleteUsers made in a row to delete everything
MaxAttempts == 3

(***************************************************************************)
(* Dynamic values                                                          *)
(***************************************************************************)
NilV == [t |-> "nil"]
Str(s) == [t |-> "str", s |-> s]
Num(n) == [t |-> "num", n |-> n]
Bool(b) == [t |-> "bool", b |-> b]
Map(m) == [t |-> "map", m |-> m]
Arr(a) == [t |-> "arr", a |-> a]

EmptyMap == [k \in {} |-> NilV]
Put(m, k, v) == [x \in DOMAIN m \cup {k} |-> IF x = k THEN v ELSE m[x]]
Del(m, k) == [x \in DOMAIN m \ {k} |-> m[x]]

\* strconv-style decimal rendering, as fmt's %v and %d print an integer
Digit(d) ==
    CASE d = 0 -> "0" [] d = 1 -> "1" [] d = 2 -> "2" [] d = 3 -> "3"
      [] d = 4 -> "4" [] d = 5 -> "5" [] d = 6 -> "6" [] d = 7 -> "7"
      [] d = 8 -> "8" [] d = 9 -> "9"

RECURSIVE FormatNat(_)
FormatNat(n) == IF n < 10 THEN Digit(n) ELSE FormatNat(n \div 10) \o Digit(n % 10)

FormatInt(n) == IF n < 0 THEN "-" \o FormatNat(0 - n) ELSE FormatNat(n)

\* variant: ids rendered as JSON text, a string in quotes (C9 tells it apart)
FormatV_Quoted(v) ==
    CASE v.t = "str" -> "\"" \o v.s \o "\""
      [] v.t = "num" -> FormatInt(v.n)
      [] v.t = "bool" -> IF v.b THEN "true" ELSE "false"
      [] OTHER -> "null"

\* fmt.Sprintf("%v", v) for the values an org/project id can hold
FormatV(v) ==
    CASE v.t = "str" -> v.s
      [] v.t = "num" -> FormatInt(v.n)
      [] v.t = "bool" -> IF v.b THEN "true" ELSE "false"
      [] OTHER -> "<nil>"

(***************************************************************************)
(* MemoryOptions                                                           *)
(***************************************************************************)
MemoryOptionsFields ==
    {"APIVersion", "Version", "UserID", "AgentID", "AppID", "RunID", "Metadata",
     "Filters", "OrgName", "ProjectName", "OrgID", "ProjectID", "Infer", "Page",
     "PageSize", "Includes", "Excludes", "EnableGraph", "StartDate", "EndDate",
     "CustomCategories", "CustomInstructions", "Timestamp", "OutputFormat",
     "AsyncMode"}

\* the json tag of each MemoryOptions field
WireName(f) ==
    CASE f = "APIVersion" -> "api_version"
      [] f = "Version" -> "version"
      [] f = "UserID" -> "user_id"
      [] f = "AgentID" -> "agent_id"
      [] f = "AppID" -> "app_id"
      [] f = "RunID" -> "run_id"
      [] f = "Metadata" -> "metadata"
      [] f = "Filters" -> "filters"
      [] f = "OrgName" -> "org_name"
      [] f = "ProjectName" -> "project_name"
      [] f = "OrgID" -> "org_id"
      [] f = "ProjectID" -> "project_id"
      [] f = "Infer" -> "infer"
      [] f = "Page" -> "page"
      [] f = "PageSize" -> "page_size"
      [] f = "Includes" -> "includes"
      [] f = "Excludes" -> "excludes"
      [] f = "EnableGraph" -> "enable_graph"
      [] f = "StartDate" -> "start_date"
      [] f = "EndDate" -> "end_date"
      [] f = "CustomCategories" -> "custom_categories"
      [] f = "CustomInstructions" -> "custom_instructions"
      [] f = "Timestamp" -> "timestamp"
      [] f = "OutputFormat" -> "output_format"
      [] f = "AsyncMode" -> "async_mode"

\* MemoryOptions{}: every field unset
EmptyOptions == [f \in MemoryOptionsFields |-> NilV]

\* the values a set field is given in the exploration, by the field's Go type
FieldValues(f) ==
    CASE f \in {"APIVersion", "Version"} -> {Str("v1"), Str("v2")}
      [] f \in {"OrgID", "ProjectID"} -> {Str("7"), Num(7), Num(42)}
      [] f \in {"Infer", "EnableGraph", "AsyncMode"} -> {Bool(FALSE)}
      [] f \in {"Page", "PageSize"} -> {Num(3)}
      [] f = "Timestamp" -> {Num(0)}
      [] f \in {"Metadata", "Filters"} -> {Map([k \in {"k"} |-> Str("v")])}
      [] f = "CustomCategories" -> {Arr(<<Map([k \in {"c"} |-> Str("d")])>>)}
      [] f = "OutputFormat" -> {Str("v1.1")}
      [] f = "UserID" -> {Str("u1"), Str("")}
      [] OTHER -> {Str(f)}

SetFields(o) == {f \in DOMAIN o : o[f] /= NilV}

\* every way of setting one more field of an options value of the set os
OneMoreField(os) ==
    {[o EXCEPT ![f] = v] : <<o, f, v>> \in
        {<<o, f, v>> \in
            os \X MemoryOptionsFields \X UNION {FieldValues(f) : f \in MemoryOptionsFields} :
            o[f] = NilV /\ v \in FieldValues(f)}}

RECURSIVE OptionsUpTo(_)
OptionsUpTo(k) ==
    IF k = 0 THEN {EmptyOptions}
    ELSE LET prev == OptionsUpTo(k - 1) IN prev \cup OneMoreField(prev)

Message(role, content) == [role |-> role, content |-> Str(content)]

MessageLists ==
    UNION {[1..n -> {Message("user", "hi"), Message("assistant", "hello")}] : n \in 0..MaxMsgs}

(***************************************************************************)
(* Request builder                                                         *)
(***************************************************************************)
\* the fields preparePayload copies, in the order of its if-statements, each with
\* the key it is stored under
PayloadKeys ==
    << <<"APIVersion", "api_version">>, <<"Version", "version">>,
       <<"UserID", "user_id">>, <<"AgentID", "agent_id">>, <<"AppID", "app_id">>,
       <<"RunID", "run_id">>, <<"Metadata", "metadata">>, <<"Filters", "filters">>,
       <<"OrgName", "org_name">>, <<"ProjectName", "project_name">>,
       <<"OrgID", "org_id">>, <<"ProjectID", "project_id">>, <<"Infer", "infer">>,
       <<"EnableGraph", "enable_graph">>,
       <<"CustomCategories", "custom_categories">>,
       <<"CustomInstructions", "custom_instructions">>,
       <<"OutputFormat", "output_format">>, <<"AsyncMode", "async_mode">> >>

RECURSIVE CopySet(_, _, _, _)
\* the if-chain "if options.F != nil { payload[key] = options.F }" from entry i on
CopySet(acc, opts, keys, i) ==
    IF i > Len(keys) THEN acc
    ELSE CopySet(IF opts[keys[i][1]] /= NilV
                 THEN Put(acc, keys[i][2], opts[keys[i][1]])
                 ELSE acc,
                 opts, keys, i + 1)

\* variant: user_id is always sent, as null when unset (C6 tells it apart)
preparePayload_Nulls(msgs, opts) ==
    Put(CopySet([k \in {"messages"} |-> Arr(msgs)], opts, PayloadKeys, 1),
        "user_id", opts["UserID"])

preparePayload(msgs, opts) ==
    CopySet([k \in {"messages"} |-> Arr(msgs)], opts, PayloadKeys, 1)

\* url.Values.Add
ValuesAdd(vs, k, s) ==
    IF k \in DOMAIN vs THEN [vs EXCEPT ![k] = Append(@, s)] ELSE Put(vs, k, <<s>>)

\* url.Values.Get
ValuesGet(vs, k) == IF k \in DOMAIN vs /\ Len(vs[k]) > 0 THEN vs[k][1] ELSE ""

\* the fields the MemoryOptions case of prepareParams copies, with their keys
ParamKeys ==
    << <<"UserID", "user_id">>, <<"AgentID", "agent_id">>, <<"AppID", "app_id">>,
       <<"RunID", "run_id">>, <<"OrgName", "org_name">>,
       <<"ProjectName", "project_name">>, <<"OrgID", "org_id">>,
       <<"ProjectID", "project_id">> >>

RECURSIVE AddSet(_, _, _, _)
AddSet(acc, opts, keys, i) ==
    IF i > Len(keys) THEN acc
    ELSE AddSet(IF opts[keys[i][1]] /= NilV
                THEN ValuesAdd(acc, keys[i][2], FormatV(opts[keys[i][1]]))
                ELSE acc,
                opts, keys, i + 1)

prepareParams(opts) == AddSet(EmptyMap, opts, ParamKeys, 1)

NotBuilt == [built |-> FALSE]
Built(v) == [built |-> TRUE, v |-> v]

BuilderInit ==
    /\ options \in OptionsUpTo(MaxSetFields)
    /\ messages \in MessageLists
    /\ payload = NotBuilt
    /\ params = NotBuilt

BuildPayload ==
    /\ payload = NotBuilt
    /\ payload' = Built(preparePayload(messages, options))
    /\ UNCHANGED <<options, messages, params, clientVars>>

BuildParams ==
    /\ params = NotBuilt
    /\ params' = Built(prepareParams(options))
    /\ UNCHANGED <<options, messages, payload, clientVars>>

(***************************************************************************)
(* Errors                                                                  *)
(***************************************************************************)
NoErr == [e |-> "nil"]
NewAPIError(message, statusCode, body) ==
    [e |-> "APIError", Message |-> message, StatusCode |-> statusCode, Body |-> body]
NewValidationError(field, message) ==
    [e |-> "ValidationError", Field |-> field, Message |-> message]
\* fmt.Errorf(prefix + "%w", inner): a plain error value wrapping inner
Errorf(prefix, inner) == [e |-> "error", prefix |-> prefix, inner |-> inner]
\* the error net/http returns when no response arrives
TransportError == [e |-> "transport"]
\* the error encoding/json returns
JSONError == [e |-> "json"]

RECURSIVE ErrorString(_)
\* err.Error()
ErrorString(err) ==
    CASE err.e = "APIError" ->
            IF err.StatusCode > 0
            THEN "API request failed (status " \o FormatInt(err.StatusCode) \o "): "
                    \o err.Message
            ELSE "API request failed: " \o err.Message
      [] err.e = "ValidationError" ->
            IF err.Field /= ""
            THEN "validation error for field '" \o err.Field \o "': " \o err.Message
            ELSE "validation error: " \o err.Message
      [] err.e = "error" ->
            IF err.inner = NoErr THEN err.prefix ELSE err.prefix \o ErrorString(err.inner)
      [] err.e = "transport" -> "connection refused"
      [] err.e = "json" -> "invalid character"
      [] OTHER -> ""

(***************************************************************************)
(* Transport                                                               *)
(***************************************************************************)
\* what comes back for one request: nothing (httpClient.Do fails), or a response
\* with a status, its body text, and what json.Unmarshal makes of that text
Invalid == [t |-> "invalid"]
NoResponse == [k |-> "none"]
Response(status, raw, json) == [k |-> "resp", status |-> status, raw |-> raw, json |-> json]

NoOutcome == [k |-> "unused"]

Request(method, path, query, body) ==
    [method |-> method, path |-> path, query |-> query, body |-> body]

Exchange(req, out) == [req |-> req, out |-> out]

fetchWithErrorHandling(out) ==
    IF out.k = "none"
    THEN [err |-> Errorf("request failed: ", TransportError), val |-> NilV]
    ELSE IF out.status < 200 \/ out.status >= 300
    THEN [err |-> NewAPIError(out.raw, out.status, out.raw), val |-> NilV]
    ELSE IF out.json = Invalid
    THEN [err |-> Errorf("failed to parse response JSON: ", JSONError), val |-> NilV]
    ELSE [err |-> NoErr, val |-> out.json]

(***************************************************************************)
(* Response normalizer                                                     *)
(***************************************************************************)
IsStruct(kind) == kind \in {"Memory", "MemoryHistory", "MessageResponse", "User", "AllUsers"}

\* the json-tagged fields of the result types, with the kind each decodes into
FieldKinds(struct) ==
    CASE struct = "MessageResponse" -> [message |-> "string"]
      [] struct = "Memory" ->
            [id |-> "string", memory |-> "string", user_id |-> "string",
             event |-> "string", score |-> "number"]
      [] struct = "MemoryHistory" ->
            [id |-> "string", memory_id |-> "string", old_memory |-> "string",
             new_memory |-> "string", user_id |-> "string", event |-> "string"]
      [] struct = "User" ->
            [id |-> "string", name |-> "string", type |-> "string",
             owner |-> "string", total_memories |-> "number"]
      [] struct = "AllUsers" -> [count |-> "number", results |-> "[]User"]

ElemKind(kind) ==
    CASE kind = "[]Memory" -> "Memory"
      [] kind = "[]MemoryHistory" -> "MemoryHistory"
      [] kind = "[]User" -> "User"

RECURSIVE Decodes(_, _)
\* json.Unmarshal(json.Marshal(v), &target) succeeds for a target of this kind
Decodes(v, kind) ==
    IF v.t = "nil" THEN TRUE
    ELSE IF kind = "string" THEN v.t = "str"
    ELSE IF kind = "number" THEN v.t = "num"
    ELSE IF IsStruct(kind)
    THEN /\ v.t = "map"
         /\ \A k \in DOMAIN v.m \cap DOMAIN FieldKinds(kind) :
                Decodes(v.m[k], FieldKinds(kind)[k])
    ELSE /\ v.t = "arr"
         /\ \A i \in 1..Len(v.a) : Decodes(v.a[i], ElemKind(kind))

\* variant: a value that does not decode yields the zero value and no error
parseResponse_ZeroFill(response, kind) ==
    [err |-> NoErr, val |-> IF Decodes(response, kind) THEN response ELSE NilV]

parseResponse(response, kind) ==
    IF Decodes(response, kind)
    THEN [err |-> NoErr, val |-> response]
    ELSE [err |-> Errorf("failed to unmarshal response: ", JSONError), val |-> NilV]

\* a string field of a decoded struct: the zero value when the key is absent or null
StringField(v, k) ==
    IF v.t = "map" /\ k \in DOMAIN v.m /\ v.m[k].t = "str" THEN v.m[k].s ELSE ""

(***************************************************************************)
(* Client construction and the connectivity probe                          *)
(***************************************************************************)
DefaultHost == "https://api.mem0.ai"

IsSpace(ch) == ch \in {" ", "\t", "\n", "\r"}

RECURSIVE TrimLeft(_)
TrimLeft(s) == IF Len(s) > 0 /\ IsSpace(Head(s)) THEN TrimLeft(Tail(s)) ELSE s

RECURSIVE TrimRight(_)
TrimRight(s) ==
    IF Len(s) > 0 /\ IsSpace(s[Len(s)]) THEN TrimRight(SubSeq(s, 1, Len(s) - 1)) ELSE s

\* strings.TrimSpace, on a string held as its sequence of characters
TrimSpace(s) == TrimRight(TrimLeft(s))

\* variant: without the strings.TrimSpace check (C1 tells it apart)
validateAPIKey_NoTrim(apiKey) ==
    IF apiKey = <<>> THEN NewValidationError("apiKey", "Mem0 API key is required")
    ELSE NoErr

validateAPIKey(apiKey) ==
    IF apiKey = <<>> THEN NewValidationError("apiKey", "Mem0 API key is required")
    ELSE IF TrimSpace(apiKey) = <<>>
    THEN NewValidationError("apiKey", "Mem0 API key cannot be empty")
    ELSE NoErr

NoClient ==
    [live |-> FALSE, apiKey |-> <<>>, host |-> "", organizationName |-> NilV,
     projectName |-> NilV, organizationID |-> NilV, projectID |-> NilV,
     telemetryID |-> ""]

PingRequest == Request("GET", "/v1/ping/", EmptyMap, NilV)

\* status, ok := responseMap["status"].(string); ok && status == "ok"
StatusOK(m) == "status" \in DOMAIN m /\ m["status"] = Str("ok")

\* the message of a probe answer whose status is not "ok"
PingMessage(v) ==
    IF StringField(v, "message") = "" THEN "API Key is invalid"
    ELSE StringField(v, "message")

\* variant: the probe's org_id always wins (C5 tells it apart)
SetOrganizationID_Overwrite(c, m) ==
    IF "org_id" \in DOMAIN m THEN [c EXCEPT !.organizationID = m["org_id"]] ELSE c

\* if orgID, exists := responseMap["org_id"]; exists && c.organizationID == nil
SetOrganizationID(c, m) ==
    IF "org_id" \in DOMAIN m /\ c.organizationID = NilV
    THEN [c EXCEPT !.organizationID = m["org_id"]] ELSE c

\* if projectID, exists := responseMap["project_id"]; exists && c.projectID == nil
SetProjectID(c, m) ==
    IF "project_id" \in DOMAIN m /\ c.projectID = NilV
    THEN [c EXCEPT !.projectID = m["project_id"]] ELSE c

\* variant: the probe never sets the session id (C3 tells it apart)
SetTelemetryID_Never(c, m) == c

\* if userEmail, exists := responseMap["user_email"].(string); exists
SetTelemetryID(c, m) ==
    IF "user_email" \in DOMAIN m /\ m["user_email"].t = "str"
    THEN [c EXCEPT !.telemetryID = m["user_email"].s] ELSE c

\* "Update client configuration from response"
UpdateFromPing(c, m) == SetTelemetryID(SetProjectID(SetOrganizationID(c, m), m), m)

\* variant: the answer's identity fields are taken even when its status is not
\* "ok"
PingResult_Eager(c, f) ==
    IF f.err /= NoErr
    THEN [client |-> c, err |-> Errorf("failed to ping server: ", f.err)]
    ELSE IF f.val.t /= "map"
    THEN [client |-> c,
          err |-> NewAPIError("Invalid response format from ping endpoint", 0, "")]
    ELSE IF ~StatusOK(f.val.m)
    THEN [client |-> UpdateFromPing(c, f.val.m),
          err |-> NewAPIError(PingMessage(f.val), 0, "")]
    ELSE [client |-> UpdateFromPing(c, f.val.m), err |-> NoErr]

\* c.Ping once the transport has given f: the client afterwards and the error
PingResult(c, f) ==
    IF f.err /= NoErr
    THEN [client |-> c, err |-> Errorf("failed to ping server: ", f.err)]
    ELSE IF f.val.t /= "map"
    THEN [client |-> c,
          err |-> NewAPIError("Invalid response format from ping endpoint", 0, "")]
    ELSE IF ~StatusOK(f.val.m)
    THEN [client |-> c, err |-> NewAPIError(PingMessage(f.val), 0, "")]
    ELSE [client |-> UpdateFromPing(c, f.val.m), err |-> NoErr]

\* c.Ping against a server that answers out
Ping(c, out) == PingResult(c, fetchWithErrorHandling(out))

\* a probe p that was answered out, as the first step of an operation
Probed(p, out) ==
    [client |-> p.client, err |-> p.err, net |-> <<Exchange(PingRequest, out)>>]

\* variant: the operations never probe (C2 tells it apart)
EnsureProbe_Skip(c, pout) == [client |-> c, err |-> NoErr, net |-> <<>>]

\* the guard at the top of every public operation:
\*   if c.telemetryID == "" { if err := c.Ping(ctx); err != nil { return nil, err } }
EnsureProbe(c, pout) ==
    IF c.telemetryID = "" THEN Probed(Ping(c, pout), pout)
    ELSE [client |-> c, err |-> NoErr, net |-> <<>>]

\* NewMemoryClient's inputs
ApiKeys == {<<>>, <<" ">>, <<" ", "\t">>, <<"k">>, <<" ", "k">>}

ClientOptionsSet ==
    {[APIKey |-> k, Host |-> h, OrganizationName |-> n[1], ProjectName |-> n[2],
      OrganizationID |-> i[1], ProjectID |-> i[2]] :
        k \in ApiKeys,
        h \in {NilV, Str("https://custom.api.com")},
        n \in {<<NilV, NilV>>, <<Str("on"), Str("pn")>>, <<Str("on"), NilV>>},
        i \in {<<NilV, NilV>>, <<Str("o1"), Str("p1")>>, <<Str("o1"), NilV>>}}

\* the answers the server (or the network) gives to GET /v1/ping/
PingBodies ==
    {Map([k \in {"status"} |-> Str("ok")]),
     Map([status |-> Str("ok"), user_email |-> Str("e@x")]),
     Map([status |-> Str("ok"), user_email |-> Str("")]),
     Map([status |-> Str("ok"), org_id |-> Str("po"), project_id |-> Str("pp")]),
     Map([status |-> Str("ok"), org_id |-> Str("po"), project_id |-> Str("pp"),
          user_email |-> Str("e@x")])}

PingOutcomes ==
    {NoResponse,
     Response(401, "unauthorized", Invalid),
     Response(200, "{\"status\":\"error\",\"message\":\"bad key\"}",
              Map([status |-> Str("error"), message |-> Str("bad key")])),
     Response(200, "{\"status\":\"error\",\"org_id\":\"po\",...}",
              Map([status |-> Str("error"), org_id |-> Str("po"),
                   project_id |-> Str("pp"), user_email |-> Str("e@x")])),
     Response(200, "[\"ok\"]", Arr(<<Str("ok")>>))}
    \cup {Response(200, "{\"status\":\"ok\",...}", b) : b \in PingBodies}

\* the probe answers an operation can meet: none is drawn when it will not probe
ProbeOutcomes(c) == IF c.telemetryID = "" THEN PingOutcomes ELSE {NoOutcome}

\* host := "https://api.mem0.ai"; if options.Host != nil { host = *options.Host }
HostOf(o) == IF o.Host /= NilV THEN o.Host.s ELSE DefaultHost

\* the struct literal of NewMemoryClient
NewClient(o) ==
    [live |-> TRUE, apiKey |-> o.APIKey, host |-> HostOf(o),
     organizationName |-> o.OrganizationName, projectName |-> o.ProjectName,
     organizationID |-> o.OrganizationID, projectID |-> o.ProjectID,
     telemetryID |-> ""]

\* variant: a failed probe fails the construction (C4 tells it apart)
Constructed_Fatal(p, out) ==
    IF p.err /= NoErr
    THEN [client |-> NoClient, net |-> <<Exchange(PingRequest, out)>>,
          ret |-> [err |-> p.err, val |-> NilV]]
    ELSE [client |-> p.client, net |-> <<Exchange(PingRequest, out)>>,
          ret |-> [err |-> NoErr, val |-> Str("*MemoryClient")]]

\* NewMemoryClient after a valid key: the probe's error is printed, not returned
Constructed(p, out) ==
    [client |-> p.client, net |-> <<Exchange(PingRequest, out)>>,
     ret |-> [err |-> NoErr, val |-> Str("*MemoryClient")]]

\* NewMemoryClient(options) against a server that answers the probe with out
NewMemoryClient(o, out) ==
    IF validateAPIKey(o.APIKey) /= NoErr
    THEN [client |-> NoClient, net |-> <<>>,
          ret |-> [err |-> validateAPIKey(o.APIKey), val |-> NilV]]
    ELSE Constructed(Ping(NewClient(o), out), out)

(***************************************************************************)
(* Public operations                                                       *)
(***************************************************************************)
\* if c.organizationName != nil && c.projectName != nil { opts.OrgName = ... }
MergeNames(c, opts) ==
    IF c.organizationName /= NilV /\ c.projectName /= NilV
    THEN [opts EXCEPT !["OrgName"] = c.organizationName,
                      !["ProjectName"] = c.projectName]
    ELSE opts

\* variant: the ids are merged in and the names are left in place
MergeIDs_KeepNames(c, opts) ==
    IF c.organizationID /= NilV /\ c.projectID /= NilV
    THEN [opts EXCEPT !["OrgID"] = c.organizationID, !["ProjectID"] = c.projectID]
    ELSE opts

\* if c.organizationID != nil && c.projectID != nil { opts.OrgID = ...; names = nil }
MergeIDs(c, opts) ==
    IF c.organizationID /= NilV /\ c.projectID /= NilV
    THEN [opts EXCEPT !["OrgID"] = c.organizationID, !["ProjectID"] = c.projectID,
                      !["OrgName"] = NilV, !["ProjectName"] = NilV]
    ELSE opts

\* the block "Set organization/project info" of Add, GetAll, DeleteAll, Users and
\* DeleteUsers
MergeIdentity(c, opts) == MergeIDs(c, MergeNames(c, opts))

\* an operation that stops at its failed probe
Failed(e) == [client |-> e.client, net |-> e.net, ret |-> [err |-> e.err, val |-> NilV]]

\* the result of an operation whose request got f from the transport
Decoded(f, kind) ==
    IF f.err /= NoErr THEN [err |-> f.err, val |-> NilV] ELSE parseResponse(f.val, kind)

\* a variant that issues the request a second time when it failed
Finish_Again(e, req, out, kind) ==
    [client |-> e.client,
     net |-> IF fetchWithErrorHandling(out).err /= NoErr
             THEN e.net \o <<Exchange(req, out), Exchange(req, out)>>
             ELSE Append(e.net, Exchange(req, out)),
     ret |-> Decoded(fetchWithErrorHandling(out), kind)]

\* the tail of an operation: issue req, return the error or the decoded result
Finish(e, req, out, kind) ==
    [client |-> e.client,
     net |-> Append(e.net, Exchange(req, out)),
     ret |-> Decoded(fetchWithErrorHandling(out), kind)]

\* variant: the caller's Version is left as given (C15 tells it apart)
MirrorVersion_Keep(opts) == opts

\* "Handle API version": opts.Version mirrors opts.APIVersion
MirrorVersion(opts) ==
    IF opts["APIVersion"] /= NilV THEN [opts EXCEPT !["Version"] = opts["APIVersion"]]
    ELSE opts

AddRequest(c, msgs, opts) ==
    Request("POST", "/v1/memories/", EmptyMap,
            Map(preparePayload(msgs, MirrorVersion(MergeIdentity(c, opts)))))

AddProbed(e, msgs, opts, out) ==
    IF e.err /= NoErr THEN Failed(e)
    ELSE Finish(e, AddRequest(e.client, msgs, opts), out, "[]Memory")

Add(c, msgs, opts, pout, out) == AddProbed(EnsureProbe(c, pout), msgs, opts, out)

UpdateProbed(e, memoryID, message, out) ==
    IF e.err /= NoErr THEN Failed(e)
    ELSE Finish(e, Request("PUT", "/v1/memories/" \o memoryID \o "/", EmptyMap,
                           Map([text |-> Str(message)])), out, "[]Memory")

Update(c, memoryID, message, pout, out) ==
    UpdateProbed(EnsureProbe(c, pout), memoryID, message, out)

GetProbed(e, memoryID, out) ==
    IF e.err /= NoErr THEN Failed(e)
    ELSE Finish(e, Request("GET", "/v1/memories/" \o memoryID \o "/", EmptyMap, NilV),
                out, "Memory")

Get(c, memoryID, pout, out) == GetProbed(EnsureProbe(c, pout), memoryID, out)

\* SearchOptions: the embedded MemoryOptions and the search-only fields
SearchFields ==
    {"Limit", "EnableGraph", "Threshold", "TopK", "OnlyMetadataBasedSearch",
     "KeywordSearch", "Fields", "Categories", "Rerank"}

EmptySearch == [f \in SearchFields |-> NilV]

SearchOptions(mem, search) == [mem |-> mem, search |-> search]

\* variant: each of page and page_size is appended when it is set (C12 tells it
\* apart)
WithPagination_Each(query, mem) ==
    IF mem["Page"] /= NilV
    THEN ValuesAdd(IF mem["PageSize"] /= NilV
                   THEN ValuesAdd(query, "page_size", FormatInt(mem["PageSize"].n))
                   ELSE query,
                   "page", FormatInt(mem["Page"].n))
    ELSE IF mem["PageSize"] /= NilV
    THEN ValuesAdd(query, "page_size", FormatInt(mem["PageSize"].n))
    ELSE query

\* "page=%d&page_size=%d" appended to the query, when both are set
WithPagination(query, mem) ==
    IF mem["Page"] /= NilV /\ mem["PageSize"] /= NilV
    THEN ValuesAdd(ValuesAdd(query, "page", FormatInt(mem["Page"].n)),
                   "page_size", FormatInt(mem["PageSize"].n))
    ELSE query

\* if opts.OrgID != nil { requestBody["org_id"] = opts.OrgID }
BodyOrgID(body, mem) ==
    IF mem["OrgID"] /= NilV THEN Put(body, "org_id", mem["OrgID"]) ELSE body

\* if opts.ProjectID != nil { requestBody["project_id"] = opts.ProjectID }
BodyProjectID(body, mem) ==
    IF mem["ProjectID"] /= NilV THEN Put(body, "project_id", mem["ProjectID"]) ELSE body

\* variant: the v1 request whatever the version (C11 tells it apart)
GetAllRequest_AlwaysV1(mem) ==
    Request("GET", "/v1/memories/", WithPagination(prepareParams(mem), mem), NilV)

\* variant: the v2 body is the payload preparePayload builds from the options
GetAllRequest_FullBody(mem) ==
    IF mem["APIVersion"] = Str("v2")
    THEN Request("POST", "/v2/memories/", WithPagination(EmptyMap, mem),
                 Map(preparePayload(<<>>, mem)))
    ELSE Request("GET", "/v1/memories/", WithPagination(prepareParams(mem), mem), NilV)

\* GetAll's request for the merged options mem
GetAllRequest(mem) ==
    IF mem["APIVersion"] = Str("v2")
    THEN Request("POST", "/v2/memories/", WithPagination(EmptyMap, mem),
                 Map(BodyProjectID(BodyOrgID(EmptyMap, mem), mem)))
    ELSE Request("GET", "/v1/memories/", WithPagination(prepareParams(mem), mem), NilV)

\* variant: the search options are flattened into the body, as Search does (C14
\* tells it apart)
GetAllProbed_Flatten(e, opts, out) ==
    IF e.err /= NoErr THEN Failed(e)
    ELSE Finish(e, [GetAllRequest(MergeIdentity(e.client, opts.mem))
                        EXCEPT !.body = Map(CopySet(EmptyMap, opts.search,
                                                    << <<"Limit", "limit">>,
                                                       <<"TopK", "top_k">> >>, 1))],
                out, "[]Memory")

GetAllProbed(e, opts, out) ==
    IF e.err /= NoErr THEN Failed(e)
    ELSE Finish(e, GetAllRequest(MergeIdentity(e.client, opts.mem)), out, "[]Memory")

GetAll(c, opts, pout, out) == GetAllProbed(EnsureProbe(c, pout), opts, out)

SearchMemoryKeys ==
    << <<"UserID", "user_id">>, <<"AgentID", "agent_id">>, <<"AppID", "app_id">>,
       <<"RunID", "run_id">>, <<"Metadata", "metadata">>, <<"Filters", "filters">> >>

SearchOnlyKeys ==
    << <<"Limit", "limit">>, <<"EnableGraph", "enable_graph">>,
       <<"Threshold", "threshold">>, <<"TopK", "top_k">>,
       <<"OnlyMetadataBasedSearch", "only_metadata_based_search">>,
       <<"KeywordSearch", "keyword_search">>, <<"Fields", "fields">>,
       <<"Categories", "categories">>, <<"Rerank", "rerank">> >>

addSearchOptionsToPayload(pl, opts) ==
    CopySet(CopySet(pl, opts.mem, SearchMemoryKeys, 1), opts.search, SearchOnlyKeys, 1)

\* if c.organizationName != nil && c.projectName != nil { payload["org_name"] = ... }
SearchNames(c, pl) ==
    IF c.organizationName /= NilV /\ c.projectName /= NilV
    THEN Put(Put(pl, "org_name", c.organizationName), "project_name", c.projectName)
    ELSE pl

\* if c.organizationID != nil && c.projectID != nil { ...; delete(payload, names) }
SearchIDs(c, pl) ==
    IF c.organizationID /= NilV /\ c.projectID /= NilV
    THEN Del(Del(Put(Put(pl, "org_id", c.organizationID), "project_id", c.projectID),
                 "org_name"), "project_name")
    ELSE pl

SearchEndpoint(opts) ==
    IF opts.mem["APIVersion"] = Str("v2")
    THEN "/v2/memories/search/" ELSE "/v1/memories/search/"

SearchRequest(c, query, opts) ==
    Request("POST", SearchEndpoint(opts), EmptyMap,
            Map(addSearchOptionsToPayload(
                    SearchIDs(c, SearchNames(c, [k \in {"query"} |-> Str(query)])),
                    opts)))

SearchProbed(e, query, opts, out) ==
    IF e.err /= NoErr THEN Failed(e)
    ELSE Finish(e, SearchRequest(e.client, query, opts), out, "[]Memory")

Search(c, query, opts, pout, out) == SearchProbed(EnsureProbe(c, pout), query, opts, out)

DeleteProbed(e, memoryID, out) ==
    IF e.err /= NoErr THEN Failed(e)
    ELSE Finish(e, Request("DELETE", "/v1/memories/" \o memoryID \o "/", EmptyMap, NilV),
                out, "MessageResponse")

Delete(c, memoryID, pout, out) == DeleteProbed(EnsureProbe(c, pout), memoryID, out)

DeleteAllProbed(e, opts, out) ==
    IF e.err /= NoErr THEN Failed(e)
    ELSE Finish(e, Request("DELETE", "/v1/memories/",
                           prepareParams(MergeIdentity(e.client, opts)), NilV),
                out, "MessageResponse")

DeleteAll(c, opts, pout, out) == DeleteAllProbed(EnsureProbe(c, pout), opts, out)

\* a variant that answers every object with the fallback
BatchMessage_StringOnly(v, fallback) ==
    IF v.t = "str" THEN v.s ELSE fallback

\* the string BatchUpdate and BatchDelete make of a decoded response
BatchMessage(v, fallback) ==
    IF v.t = "str" THEN v.s
    ELSE IF v.t = "map" /\ "message" \in DOMAIN v.m /\ v.m["message"].t = "str"
    THEN v.m["message"].s
    ELSE fallback

BatchResult(f, fallback) ==
    IF f.err /= NoErr THEN [err |-> f.err, val |-> Str("")]
    ELSE [err |-> NoErr, val |-> Str(BatchMessage(f.val, fallback))]

\* the tail of BatchUpdate and BatchDelete
FinishBatch(e, req, out, fallback) ==
    [client |-> e.client,
     net |-> Append(e.net, Exchange(req, out)),
     ret |-> BatchResult(fetchWithErrorHandling(out), fallback)]

\* a batch operation that stops at its failed probe returns "" and the error
FailedBatch(e) ==
    [client |-> e.client, net |-> e.net, ret |-> [err |-> e.err, val |-> Str("")]]

BatchUpdateBody(memories) ==
    [i \in 1..Len(memories) |->
        Map([memory_id |-> Str(memories[i].MemoryID), text |-> Str(memories[i].Text)])]

BatchUpdateProbed(e, memories, out) ==
    IF e.err /= NoErr THEN FailedBatch(e)
    ELSE FinishBatch(e, Request("PUT", "/v1/batch/", EmptyMap,
                                Map([memories |-> Arr(BatchUpdateBody(memories))])),
                     out, "Batch update completed")

BatchUpdate(c, memories, pout, out) ==
    BatchUpdateProbed(EnsureProbe(c, pout), memories, out)

BatchDeleteBody(memoryIDs) ==
    [i \in 1..Len(memoryIDs) |-> Map([k \in {"memory_id"} |-> Str(memoryIDs[i])])]

BatchDeleteProbed(e, memoryIDs, out) ==
    IF e.err /= NoErr THEN FailedBatch(e)
    ELSE FinishBatch(e, Request("DELETE", "/v1/batch/", EmptyMap,
                                Map([memories |-> Arr(BatchDeleteBody(memoryIDs))])),
                     out, "Batch delete completed")

BatchDelete(c, memoryIDs, pout, out) ==
    BatchDeleteProbed(EnsureProbe(c, pout), memoryIDs, out)

HistoryProbed(e, memoryID, out) ==
    IF e.err /= NoErr THEN Failed(e)
    ELSE Finish(e, Request("GET", "/v1/memories/" \o memoryID \o "/history/",
                           EmptyMap, NilV), out, "[]MemoryHistory")

History(c, memoryID, pout, out) == HistoryProbed(EnsureProbe(c, pout), memoryID, out)

\* the query built from the client identity alone (Users, DeleteUsers)
IdentityParams(c) == prepareParams(MergeIdentity(c, EmptyOptions))

UsersProbed(e, out) ==
    IF e.err /= NoErr THEN Failed(e)
    ELSE Finish(e, Request("GET", "/v1/entities/", IdentityParams(e.client), NilV),
                out, "AllUsers")

Users(c, pout, out) == UsersProbed(EnsureProbe(c, pout), out)

\* variant: the targets are a list kept from before, not those of the response
ResultsOf_Stale(v) ==
    <<[type |-> "user", name |-> "alice"], [type |-> "agent", name |-> "bot"]>>

\* entities.Results of a decoded AllUsers, as the {type, name} list of DeleteUsers
ResultsOf(v) ==
    IF v.t = "map" /\ "results" \in DOMAIN v.m /\ v.m["results"].t = "arr"
    THEN [i \in 1..Len(v.m["results"].a) |->
            [type |-> StringField(v.m["results"].a[i], "type"),
             name |-> StringField(v.m["results"].a[i], "name")]]
    ELSE <<>>

NoFilter(dp) ==
    dp.UserID = NilV /\ dp.AgentID = NilV /\ dp.AppID = NilV /\ dp.RunID = NilV

\* variant: the chain tests the ids in the order run, app, agent, user
Filtered_RunFirst(dp) ==
    IF dp.RunID /= NilV THEN <<[type |-> "run", name |-> dp.RunID.s]>>
    ELSE IF dp.AppID /= NilV THEN <<[type |-> "app", name |-> dp.AppID.s]>>
    ELSE IF dp.AgentID /= NilV THEN <<[type |-> "agent", name |-> dp.AgentID.s]>>
    ELSE <<[type |-> "user", name |-> dp.UserID.s]>>

\* the if/else-if chain of DeleteUsers over its parameters
Filtered(dp) ==
    IF dp.UserID /= NilV THEN <<[type |-> "user", name |-> dp.UserID.s]>>
    ELSE IF dp.AgentID /= NilV THEN <<[type |-> "agent", name |-> dp.AgentID.s]>>
    ELSE IF dp.AppID /= NilV THEN <<[type |-> "app", name |-> dp.AppID.s]>>
    ELSE <<[type |-> "run", name |-> dp.RunID.s]>>

DeleteEntityRequest(entity, query) ==
    Request("DELETE", "/v2/entities/" \o entity.type \o "/" \o entity.name \o "/",
            query, NilV)

\* variant: the error does not say which entity failed (C20 tells it apart)
DeleteEntityError_Anonymous(entity, err) ==
    NewAPIError("Failed to delete entity: " \o ErrorString(err), 0, "")

DeleteEntityError(entity, err) ==
    NewAPIError("Failed to delete " \o entity.type \o " " \o entity.name \o ": "
                    \o ErrorString(err), 0, "")

RECURSIVE DeleteEach(_, _, _, _, _)
\* the loop "for _, entity := range toDelete" from entity i on; douts[i] is the
\* answer to the i-th DELETE and done the exchanges of the loop so far
DeleteEach(toDelete, query, douts, i, done) ==
    IF i > Len(toDelete) THEN [net |-> done, err |-> NoErr]
    ELSE IF fetchWithErrorHandling(douts[i]).err /= NoErr
    THEN [net |-> Append(done, Exchange(DeleteEntityRequest(toDelete[i], query), douts[i])),
          err |-> DeleteEntityError(toDelete[i], fetchWithErrorHandling(douts[i]).err)]
    ELSE DeleteEach(toDelete, query, douts, i + 1,
                    Append(done, Exchange(DeleteEntityRequest(toDelete[i], query), douts[i])))

\* variant: one message for both kinds of call (C18 tells it apart)
DeleteUsersMessage_Same(dp) == "Entity deleted successfully."

DeleteUsersMessage(dp) ==
    IF NoFilter(dp) THEN "All users, agents, apps and runs deleted."
    ELSE "Entity deleted successfully."

\* DeleteUsers after its loop gave d
DeleteUsersLooped(u, dp, sofar, d) ==
    [client |-> u.client, net |-> sofar \o d.net,
     ret |-> IF d.err /= NoErr THEN [err |-> d.err, val |-> NilV]
             ELSE [err |-> NoErr, val |-> Map([message |-> Str(DeleteUsersMessage(dp))])]]

\* DeleteUsers once toDelete is known
DeleteUsersTargets(u, dp, sofar, toDelete, douts) ==
    IF Len(toDelete) = 0
    THEN [client |-> u.client, net |-> sofar,
          ret |-> [err |-> Errorf("no entities to delete", NoErr), val |-> NilV]]
    ELSE DeleteUsersLooped(u, dp, sofar,
                           DeleteEach(toDelete, IdentityParams(u.client), douts, 1, <<>>))

\* DeleteUsers after the inner c.Users call gave u (or was not made)
DeleteUsersListed(e, u, dp, douts) ==
    IF u.ret.err /= NoErr
    THEN [client |-> u.client, net |-> e.net \o u.net,
          ret |-> [err |-> u.ret.err, val |-> NilV]]
    ELSE DeleteUsersTargets(u, dp, e.net \o u.net,
                            IF NoFilter(dp) THEN ResultsOf(u.ret.val) ELSE Filtered(dp),
                            douts)

\* a parameter was given: c.Users is not called
NotListed(e) == [client |-> e.client, net |-> <<>>, ret |-> [err |-> NoErr, val |-> NilV]]

DeleteUsersProbed(e, dp, pout2, uout, douts) ==
    IF e.err /= NoErr THEN Failed(e)
    ELSE DeleteUsersListed(e,
                           IF NoFilter(dp) THEN Users(e.client, pout2, uout)
                           ELSE NotListed(e),
                           dp, douts)

\* pout2 and uout answer the probe and the request of the inner c.Users call
DeleteUsers(c, dp, pout, pout2, uout, douts) ==
    DeleteUsersProbed(EnsureProbe(c, pout), dp, pout2, uout, douts)

(***************************************************************************)
(* The inputs and the server answers the operations are explored on        *)
(***************************************************************************)
CallMemoryOptions ==
    {[EmptyOptions EXCEPT !["OrgName"] = n[1], !["ProjectName"] = n[2],
                          !["OrgID"] = i[1], !["ProjectID"] = i[2],
                          !["APIVersion"] = a] :
        n \in {<<NilV, NilV>>, <<Str("call-on"), Str("call-pn")>>},
        i \in {<<NilV, NilV>>, <<Str("call-o"), Str("call-p")>>, <<Str("call-o"), NilV>>},
        a \in {NilV, Str("v2")}}
    \cup {[EmptyOptions EXCEPT !["APIVersion"] = Str("v1")],
          [EmptyOptions EXCEPT !["APIVersion"] = Str("v2"), !["Version"] = Str("v1")],
          [EmptyOptions EXCEPT !["Version"] = Str("v1")],
          [EmptyOptions EXCEPT !["UserID"] = Str("u1"), !["AgentID"] = Str("a1")]}

CallSearchOptions ==
    {SearchOptions(m, EmptySearch) : m \in CallMemoryOptions}
    \cup {SearchOptions([EmptyOptions EXCEPT !["Page"] = pg[1], !["PageSize"] = pg[2],
                                             !["APIVersion"] = a], EmptySearch) :
            pg \in {<<Num(2), NilV>>, <<NilV, Num(10)>>, <<Num(2), Num(10)>>},
            a \in {NilV, Str("v2")}}
    \cup {SearchOptions([EmptyOptions EXCEPT !["APIVersion"] = Str("v2"),
                                             !["UserID"] = Str("u1"),
                                             !["AgentID"] = Str("a1"),
                                             !["AppID"] = Str("app1"),
                                             !["RunID"] = Str("run1"),
                                             !["OrgName"] = Str("call-on"),
                                             !["ProjectName"] = Str("call-pn"),
                                             !["Metadata"] = Map([k \in {"k"} |-> Str("v")]),
                                             !["Filters"] = Map([k \in {"k"} |-> Str("v")])],
                        EmptySearch)}
    \cup {SearchOptions(EmptyOptions, [EmptySearch EXCEPT !["Limit"] = Num(5)]),
          SearchOptions([EmptyOptions EXCEPT !["UserID"] = Str("u1"),
                                             !["Page"] = Num(2), !["PageSize"] = Num(10),
                                             !["Filters"] = Map([k \in {"k"} |-> Str("v")])],
                        [Limit |-> Num(5), EnableGraph |-> Bool(TRUE),
                         Threshold |-> Num(1), TopK |-> Num(3),
                         OnlyMetadataBasedSearch |-> Bool(FALSE),
                         KeywordSearch |-> Bool(TRUE),
                         Fields |-> Arr(<<Str("memory")>>),
                         Categories |-> Arr(<<Str("food")>>),
                         Rerank |-> Bool(FALSE)])}

CallMessages == {<<>>, <<Message("user", "hi")>>}

MemoryIDs == {"m1"}

Unauthorized == Response(401, "unauthorized", Invalid)
NotJSON == Response(200, "<html>", Invalid)

MemoryJSON == Map([id |-> Str("m1"), memory |-> Str("likes go"), user_id |-> Str("u1")])

\* a well-formed answer for each result type
GoodAnswer(kind) ==
    CASE kind = "[]Memory" -> Arr(<<MemoryJSON>>)
      [] kind = "Memory" -> MemoryJSON
      [] kind = "MessageResponse" -> Map([message |-> Str("Memory deleted successfully!")])
      [] kind = "[]MemoryHistory" ->
            Arr(<<Map([id |-> Str("h1"), memory_id |-> Str("m1"), old_memory |-> NilV,
                       new_memory |-> Str("likes go"), event |-> Str("ADD")])>>)

\* an answer of the wrong structure for each result type
WrongAnswer(kind) ==
    IF IsStruct(kind) THEN Arr(<<Str("x")>>) ELSE Map([detail |-> Str("unexpected")])

\* what the server may answer to a request whose result is decoded as kind;
\* besides the answers above: a field of the wrong type (a number as id and as
\* message), and for a history an ADD entry that still has an old_memory
Outcomes(kind) ==
    {NoResponse, Unauthorized, NotJSON,
     Response(200, "<good>", GoodAnswer(kind)),
     Response(200, "<wrong>", WrongAnswer(kind)),
     Response(200, "<mistyped>",
              IF IsStruct(kind) THEN Map([id |-> Num(5), message |-> Num(5)])
              ELSE Arr(<<Map([id |-> Num(5), message |-> Num(5)])>>))}
    \cup (IF kind = "[]MemoryHistory"
          THEN {Response(200, "<add with old_memory>",
                         Arr(<<Map([id |-> Str("h2"), memory_id |-> Str("m1"),
                                    old_memory |-> Str("likes c"),
                                    new_memory |-> Str("likes go"),
                                    event |-> Str("ADD")])>>))}
          ELSE {})

BatchOutcomes ==
    {NoResponse, Unauthorized,
     Response(200, "\"done\"", Str("done")),
     Response(200, "{\"message\":\"ok\"}", Map([message |-> Str("ok")])),
     Response(200, "{\"message\":7}", Map([message |-> Num(7)])),
     Response(200, "[]", Arr(<<>>))}

\* the memory id lists handed to BatchUpdate and BatchDelete: m1, m2, ...
BatchIDs == {[i \in 1..n |-> "m" \o FormatNat(i)] : n \in 0..MaxBatch}

UserJSON(type, name) == Map([id |-> Str("1"), name |-> Str(name), type |-> Str(type)])

Entities == {UserJSON("user", "alice"), UserJSON("agent", "bot")}

EntityLists == UNION {[1..n -> Entities] : n \in 0..MaxEntities}

UsersOutcomes ==
    {NoResponse, Unauthorized, Response(200, "<wrong>", WrongAnswer("AllUsers")),
     Response(200, "<mistyped>", Map([count |-> Str("many")]))}
    \cup {Response(200, "<users>", Map([count |-> Num(Len(l)), results |-> Arr(l)])) :
            l \in EntityLists}

DeleteUsersParamsSet ==
    {[UserID |-> u, AgentID |-> a, AppID |-> NilV, RunID |-> NilV] :
        u \in {NilV, Str("alice")}, a \in {NilV, Str("bot")}}
    \cup {[UserID |-> NilV, AgentID |-> NilV, AppID |-> Str("app1"), RunID |-> NilV],
          [UserID |-> NilV, AgentID |-> NilV, AppID |-> NilV, RunID |-> Str("run1")],
          [UserID |-> NilV, AgentID |-> NilV, AppID |-> Str("app1"), RunID |-> Str("run1")],
          [UserID |-> NilV, AgentID |-> Str("bot"), AppID |-> Str("app1"),
           RunID |-> Str("run1")],
          [UserID |-> Str("alice"), AgentID |-> Str("bot"), AppID |-> Str("app1"),
           RunID |-> Str("run1")]}

Deleted == Response(200, "{\"message\":\"Entity deleted successfully!\"}",
                    Map([message |-> Str("Entity deleted successfully!")]))

\* the answers to a run of DELETEs: all succeed, or the k-th is the first to fail
DeleteRuns ==
    {[i \in 1..MaxEntities |-> Deleted]}
    \cup {[i \in 1..MaxEntities |-> IF i = k THEN bad ELSE Deleted] :
            k \in 1..MaxEntities, bad \in {NoResponse, Unauthorized}}

(***************************************************************************)
(* The caller: one call at a time on one client                            *)
(***************************************************************************)
Idle == [op |-> "idle"]
NoRet == [err |-> NoErr, val |-> NilV]

\* the variables after the call c gave result
Returns(result, c) ==
    \E r \in {result} :
        /\ client' = r.client
        /\ net' = r.net
        /\ ret' = r.ret
        /\ call' = c
        /\ UNCHANGED builderVars

CallNewMemoryClient ==
    /\ ~client.live
    /\ call = Idle
    /\ \E o \in ClientOptionsSet, out \in PingOutcomes :
          Returns(NewMemoryClient(o, out), [op |-> "NewMemoryClient", options |-> o])

\* an explicit c.Ping(ctx): no telemetryID guard, the probe is the whole call
CallPing ==
    /\ client.live
    /\ call = Idle
    /\ \E out \in PingOutcomes :
          Returns(Failed(Probed(Ping(client, out), out)), [op |-> "Ping"])

CallAdd ==
    /\ client.live
    /\ call = Idle
    /\ \E msgs \in CallMessages, opts \in CallMemoryOptions,
          pout \in ProbeOutcomes(client), out \in Outcomes("[]Memory") :
          Returns(Add(client, msgs, opts, pout, out),
                  [op |-> "Add", messages |-> msgs, options |-> opts])

CallUpdate ==
    /\ client.live
    /\ call = Idle
    /\ \E id \in MemoryIDs, pout \in ProbeOutcomes(client), out \in Outcomes("[]Memory") :
          Returns(Update(client, id, "new text", pout, out),
                  [op |-> "Update", memoryID |-> id])

CallGet ==
    /\ client.live
    /\ call = Idle
    /\ \E id \in MemoryIDs, pout \in ProbeOutcomes(client), out \in Outcomes("Memory") :
          Returns(Get(client, id, pout, out), [op |-> "Get", memoryID |-> id])

CallGetAll ==
    /\ client.live
    /\ call = Idle
    /\ \E opts \in CallSearchOptions, pout \in ProbeOutcomes(client),
          out \in Outcomes("[]Memory") :
          Returns(GetAll(client, opts, pout, out),
                  [op |-> "GetAll", options |-> opts.mem, search |-> opts.search])

CallSearch ==
    /\ client.live
    /\ call = Idle
    /\ \E opts \in CallSearchOptions, pout \in ProbeOutcomes(client),
          out \in Outcomes("[]Memory") :
          Returns(Search(client, "what do I like", opts, pout, out),
                  [op |-> "Search", options |-> opts.mem, search |-> opts.search])

CallDelete ==
    /\ client.live
    /\ call = Idle
    /\ \E id \in MemoryIDs, pout \in ProbeOutcomes(client),
          out \in Outcomes("MessageResponse") :
          Returns(Delete(client, id, pout, out), [op |-> "Delete", memoryID |-> id])

CallDeleteAll ==
    /\ client.live
    /\ call = Idle
    /\ \E opts \in CallMemoryOptions, pout \in ProbeOutcomes(client),
          out \in Outcomes("MessageResponse") :
          Returns(DeleteAll(client, opts, pout, out),
                  [op |-> "DeleteAll", options |-> opts])

CallBatchUpdate ==
    /\ client.live
    /\ call = Idle
    /\ \E ids \in BatchIDs, pout \in ProbeOutcomes(client), out \in BatchOutcomes :
          Returns(BatchUpdate(client,
                              [i \in 1..Len(ids) |-> [MemoryID |-> ids[i], Text |-> "new text"]],
                              pout, out),
                  [op |-> "BatchUpdate", memoryIDs |-> ids])

CallBatchDelete ==
    /\ client.live
    /\ call = Idle
    /\ \E ids \in BatchIDs, pout \in ProbeOutcomes(client), out \in BatchOutcomes :
          Returns(BatchDelete(client, ids, pout, out),
                  [op |-> "BatchDelete", memoryIDs |-> ids])

CallHistory ==
    /\ client.live
    /\ call = Idle
    /\ \E id \in MemoryIDs, pout \in ProbeOutcomes(client),
          out \in Outcomes("[]MemoryHistory") :
          Returns(History(client, id, pout, out), [op |-> "History", memoryID |-> id])

CallUsers ==
    /\ client.live
    /\ call = Idle
    /\ \E pout \in ProbeOutcomes(client), out \in UsersOutcomes :
          Returns(Users(client, pout, out), [op |-> "Users"])

\* the answers DeleteUsers can meet after its own probe gave e: the inner c.Users
\* probes again when the session id is still unset, and lists the entities
InnerProbeOutcomes(e, dp) ==
    IF e.err = NoErr /\ NoFilter(dp) THEN ProbeOutcomes(e.client) ELSE {NoOutcome}

InnerUsersOutcomes(e, dp) ==
    IF e.err = NoErr /\ NoFilter(dp) THEN UsersOutcomes ELSE {NoOutcome}

CallDeleteUsers ==
    /\ client.live
    /\ call = Idle
    /\ \E dp \in DeleteUsersParamsSet, pout \in ProbeOutcomes(client) :
          \E e \in {EnsureProbe(client, pout)} :
             \E pout2 \in InnerProbeOutcomes(e, dp), uout \in InnerUsersOutcomes(e, dp),
                douts \in DeleteRuns :
                Returns(DeleteUsersProbed(e, dp, pout2, uout, douts),
                        [op |-> "DeleteUsers", params |-> dp])

\* the caller takes the result and is free to call again
Return ==
    /\ call /= Idle
    /\ call' = Idle
    /\ ret' = NoRet
    /\ net' = <<>>
    /\ UNCHANGED <<client, builderVars>>

Init ==
    /\ client = NoClient
    /\ call = Idle
    /\ net = <<>>
    /\ ret = NoRet
    /\ options = EmptyOptions
    /\ messages = <<>>
    /\ payload = NotBuilt
    /\ params = NotBuilt

Next ==
    \/ CallNewMemoryClient
    \/ CallPing
    \/ CallAdd
    \/ CallUpdate
    \/ CallGet
    \/ CallGetAll
    \/ CallSearch
    \/ CallDelete
    \/ CallDeleteAll
    \/ CallBatchUpdate
    \/ CallBatchDelete
    \/ CallHistory
    \/ CallUsers
    \/ CallDeleteUsers
    \/ Return

Spec == Init /\ [][Next]_vars

(***************************************************************************)
(* The request builder on its own: preparePayload and prepareParams over    *)
(* every MemoryOptions with at most MaxSetFields fields set                *)
(***************************************************************************)
InitBuilder ==
    /\ client = NoClient
    /\ call = Idle
    /\ net = <<>>
    /\ ret = NoRet
    /\ BuilderInit

NextBuilder ==
    \/ BuildPayload
    \/ BuildParams

SpecBuilder == InitBuilder /\ [][NextBuilder]_vars

(***************************************************************************)
(* Two operations started at the same time on one client.  The client has  *)
(* no lock: the telemetryID guard, the nil checks of Ping and its three     *)
(* assignments are separate reads and writes of the shared fields, and the  *)
(* steps of the two goroutines interleave in every order.  (The answers     *)
(* carry strings only, so that a write torn between two racing goroutines   *)
(* still leaves the value of one of them.)                                  *)
(*                                                                         *)
(* client is the shared *MemoryClient, net the requests in the order they   *)
(* were issued, ret[g] the result of goroutine g, and call holds the        *)
(* goroutines: their position pc, the decoded probe answer pong, the client *)
(* as it was before the two calls, and the goroutine that wrote the client  *)
(* last.                                                                   *)
(***************************************************************************)
InitRace ==
    /\ client \in {NewClient(o) : o \in {x \in ClientOptionsSet :
                                            x.APIKey = <<"k">> /\ x.Host = NilV}}
    /\ call = [op |-> "race",
               g |-> [g \in 1..2 |-> [pc |-> "guard", pong |-> NilV]],
               before |-> client,
               last |-> 0]
    /\ net = <<>>
    /\ ret = [g \in 1..2 |-> NoRet]
    /\ options = EmptyOptions
    /\ messages = <<>>
    /\ payload = NotBuilt
    /\ params = NotBuilt

\* if c.telemetryID == "" { ... c.Ping(ctx) ... }: the read of the guard
RaceGuard(g) ==
    /\ call.g[g].pc = "guard"
    /\ call' = [call EXCEPT !.g[g].pc = IF client.telemetryID = "" THEN "ping"
                                        ELSE "request"]
    /\ UNCHANGED <<client, net, ret, builderVars>>

\* Ping up to its status test: the request, and the error it returns
RaceFetch(g) ==
    /\ call.g[g].pc = "ping"
    /\ \E out \in {NoResponse,
                   Response(200, "{\"status\":\"ok\",\"org_id\":\"po\",...}",
                            Map([status |-> Str("ok"), org_id |-> Str("po"),
                                 project_id |-> Str("pp"), user_email |-> Str("e@x")])),
                   Response(200, "{\"status\":\"ok\",\"org_id\":\"qo\",...}",
                            Map([status |-> Str("ok"), org_id |-> Str("qo"),
                                 project_id |-> Str("qp"), user_email |-> Str("f@x")]))} :
          /\ net' = Append(net, Exchange(PingRequest, out))
          /\ IF PingResult(client, fetchWithErrorHandling(out)).err /= NoErr
             THEN /\ ret' = [ret EXCEPT ![g] =
                        [err |-> PingResult(client, fetchWithErrorHandling(out)).err,
                         val |-> NilV]]
                  /\ call' = [call EXCEPT !.g[g].pc = "done"]
             ELSE /\ ret' = ret
                  /\ call' = [call EXCEPT !.g[g].pc = "org", !.g[g].pong = out.json]
    /\ UNCHANGED <<client, builderVars>>

\* variant: the probe's ids are written without looking at the field first
RaceCheck_Blind(g) ==
    \/ /\ call.g[g].pc = "org"
       /\ call' = [call EXCEPT !.g[g].pc = "orgw"]
       /\ UNCHANGED <<client, net, ret, builderVars>>
    \/ /\ call.g[g].pc = "project"
       /\ call' = [call EXCEPT !.g[g].pc = "projectw"]
       /\ UNCHANGED <<client, net, ret, builderVars>>

\* the tests "exists && c.organizationID == nil" and "exists && c.projectID ==
\* nil": a read of the shared field
RaceCheck(g) ==
    \/ /\ call.g[g].pc = "org"
       /\ call' = [call EXCEPT !.g[g].pc =
                      IF "org_id" \in DOMAIN call.g[g].pong.m /\ client.organizationID = NilV
                      THEN "orgw" ELSE "project"]
       /\ UNCHANGED <<client, net, ret, builderVars>>
    \/ /\ call.g[g].pc = "project"
       /\ call' = [call EXCEPT !.g[g].pc =
                      IF "project_id" \in DOMAIN call.g[g].pong.m /\ client.projectID = NilV
                      THEN "projectw" ELSE "email"]
       /\ UNCHANGED <<client, net, ret, builderVars>>

\* the assignments c.organizationID = orgID, c.projectID = projectID and
\* c.telemetryID = userEmail
RaceWrite(g) ==
    \/ /\ call.g[g].pc = "orgw"
       /\ client' = [client EXCEPT !.organizationID = call.g[g].pong.m["org_id"]]
       /\ call' = [call EXCEPT !.g[g].pc = "project", !.last = g]
       /\ UNCHANGED <<net, ret, builderVars>>
    \/ /\ call.g[g].pc = "projectw"
       /\ client' = [client EXCEPT !.projectID = call.g[g].pong.m["project_id"]]
       /\ call' = [call EXCEPT !.g[g].pc = "email", !.last = g]
       /\ UNCHANGED <<net, ret, builderVars>>
    \/ /\ call.g[g].pc = "email"
       /\ client' = SetTelemetryID(client, call.g[g].pong.m)
       /\ call' = [call EXCEPT !.g[g].pc = "request",
                               !.last = IF client' /= client THEN g ELSE @]
       /\ UNCHANGED <<net, ret, builderVars>>

\* the operation's own request, here that of Get, and its result
RaceRequest(g) ==
    /\ call.g[g].pc = "request"
    /\ \E out \in {NoResponse, Response(200, "<good>", GoodAnswer("Memory"))} :
          \E r \in {GetProbed([client |-> client, err |-> NoErr, net |-> <<>>],
                              "m1", out)} :
              /\ net' = net \o r.net
              /\ ret' = [ret EXCEPT ![g] = r.ret]
    /\ call' = [call EXCEPT !.g[g].pc = "done"]
    /\ UNCHANGED <<client, builderVars>>

Goroutine(g) ==
    \/ RaceGuard(g)
    \/ RaceFetch(g)
    \/ RaceCheck(g)
    \/ RaceWrite(g)
    \/ RaceRequest(g)

NextRace == \E g \in 1..2 : Goroutine(g)

\* the Go scheduler runs every goroutine that can run, and every request ends,
\* with an answer or with the error of the client's timeout
SpecRace ==
    /\ InitRace
    /\ [][NextRace]_vars
    /\ WF_vars(Goroutine(1))
    /\ WF_vars(Goroutine(2))

(***************************************************************************)
(* DeleteUsers without a filter, called again after it failed, against a   *)
(* server that keeps the entities: GET /v1/entities/ lists the entities it *)
(* holds and a DELETE it answers with success removes the entity.  call    *)
(* holds the server's entities now (server) and at the start of the last   *)
(* call (before), the entities at the outset (original) and the number of  *)
(* calls made; net and ret are those of the last call.                     *)
(***************************************************************************)
\* the server's answer to GET /v1/entities/ when it holds these entities
ServerList(entities) ==
    Response(200, "<users>", Map([count |-> Num(Len(entities)), results |-> Arr(entities)]))

\* the entities the server still holds after the requests of n: a DELETE it
\* answered with success removed the entity, and so did, when lost, a DELETE
\* whose answer never reached the client
ServerApply(entities, n, lost) ==
    SelectSeq(entities,
              LAMBDA u :
                 ~\E i \in 1..Len(n) :
                     /\ n[i].req.method = "DELETE"
                     /\ n[i].req.path =
                           DeleteEntityRequest([type |-> StringField(u, "type"),
                                                name |-> StringField(u, "name")],
                                               EmptyMap).path
                     /\ (n[i].out = Deleted \/ (lost /\ n[i].out = NoResponse)))

InitRetry ==
    /\ client \in {[NewClient(o) EXCEPT !.telemetryID = "e@x"] :
                      o \in {x \in ClientOptionsSet :
                                /\ x.APIKey = <<"k">>
                                /\ x.Host = NilV
                                /\ x.OrganizationName = NilV}}
    /\ \E l \in {x \in EntityLists : \A i, j \in 1..Len(x) : x[i] = x[j] => i = j} :
          call = [op |-> "retry", original |-> l, server |-> l, before |-> l,
                  attempts |-> 0]
    /\ net = <<>>
    /\ ret = NoRet
    /\ options = EmptyOptions
    /\ messages = <<>>
    /\ payload = NotBuilt
    /\ params = NotBuilt

\* one more call of DeleteUsers without parameters, made while no call has
\* succeeded yet; the listing is the server's, or fails
RetryDeleteUsers ==
    /\ call.attempts < MaxAttempts
    /\ ret = NoRet \/ ret.err /= NoErr
    /\ \E uout \in {NoResponse, ServerList(call.server)}, douts \in DeleteRuns,
          lost \in BOOLEAN :
          \E r \in {DeleteUsers(client,
                                [UserID |-> NilV, AgentID |-> NilV, AppID |-> NilV,
                                 RunID |-> NilV],
                                NoOutcome, NoOutcome, uout, douts)} :
              /\ client' = r.client
              /\ net' = r.net
              /\ ret' = r.ret
              /\ call' = [call EXCEPT !.before = call.server,
                                      !.server = ServerApply(call.server, r.net, lost),
                                      !.attempts = @ + 1]
    /\ UNCHANGED builderVars

NextRetry == RetryDeleteUsers

SpecRetry == InitRetry /\ [][NextRetry]_vars

(***************************************************************************)
(* Properties                                                              *)
(***************************************************************************)
\* the operations that start with the telemetryID guard
PublicOps ==
    {"Add", "Update", "Get", "GetAll", "Search", "Delete", "DeleteAll", "BatchUpdate",
     "BatchDelete", "History", "Users", "DeleteUsers"}

\* an answer to GET /v1/ping/ that makes the probe succeed
ProbeAnswerOK(out) ==
    /\ out.k = "resp"
    /\ out.status >= 200 /\ out.status < 300
    /\ out.json.t = "map"
    /\ "status" \in DOMAIN out.json.m
    /\ out.json.m["status"] = Str("ok")

IsProbe(x) == x.req.method = "GET" /\ x.req.path = "/v1/ping/"

IsBlank(key) == \A i \in 1..Len(key) : key[i] \in {" ", "\t", "\n", "\r"}

\* C1: NewMemoryClient called with an API key that is empty or only whitespace
\* returns a ValidationError for field apiKey and no client, and no HTTP request
\* (not even the probe) has been issued.
C1_BlankKeyRejected ==
    (call.op = "NewMemoryClient" /\ IsBlank(call.options.APIKey)) =>
        /\ ret.err.e = "ValidationError"
        /\ ret.err.Field = "apiKey"
        /\ ret.val = NilV
        /\ ~client.live
        /\ net = <<>>

C1_Witness ==
    /\ call.op = "NewMemoryClient"
    /\ call.options.APIKey = <<" ", "\t">>
    /\ ret.err.e = "ValidationError"
    /\ net = <<>>

\* C2: a public operation invoked while telemetryID is "" issues GET /v1/ping/
\* before anything else; if that probe fails the operation returns an error and
\* the probe is the only request it issued.
C2_ProbeFirst ==
    [][(call = Idle /\ call'.op \in PublicOps /\ client.telemetryID = "") =>
          /\ Len(net') >= 1
          /\ IsProbe(net'[1])
          /\ ~ProbeAnswerOK(net'[1].out) => (ret'.err /= NoErr /\ Len(net') = 1)]_vars

C2_Witness ==
    /\ call.op = "DeleteUsers"
    /\ Len(net) = 1
    /\ IsProbe(net[1])
    /\ net[1].out = NoResponse
    /\ ret.err /= NoErr

\* the probes of the current call that succeeded, as positions in net
OKProbes(n) == {i \in 1..Len(n) : IsProbe(n[i]) /\ ProbeAnswerOK(n[i].out)}

Last(S) == CHOOSE i \in S : \A j \in S : j <= i
First(S) == CHOOSE i \in S : \A j \in S : i <= j

HasEmail(out) ==
    "user_email" \in DOMAIN out.json.m /\ out.json.m["user_email"].t = "str"

\* C3 as stated: once a probe has succeeded (status "ok") the session identifier
\* is set.  (That no later operation probes again rests on this.)
C3_SetByAnySuccessfulProbe ==
    OKProbes(net) /= {} => client.telemetryID /= ""

\* C3 amended: the client is ready when telemetryID is non-empty.  An operation
\* invoked on a ready client issues no probe and leaves telemetryID as it is; a
\* successful probe sets telemetryID to the response's user_email when the
\* response carries one as a string, and leaves it as it was otherwise.
C3_ReadyWhenEmailSeen ==
    [][/\ (call = Idle /\ call'.op \in PublicOps /\ client.telemetryID /= "") =>
             /\ \A i \in 1..Len(net') : ~IsProbe(net'[i])
             /\ client'.telemetryID = client.telemetryID
       /\ (call = Idle /\ OKProbes(net') /= {}) =>
             client'.telemetryID =
                IF HasEmail(net'[Last(OKProbes(net'))].out)
                THEN net'[Last(OKProbes(net'))].out.json.m["user_email"].s
                ELSE client.telemetryID]_vars

\* a ready client has run Search with no probe
C3_Witness ==
    /\ call.op = "Search"
    /\ client.telemetryID = "e@x"
    /\ Len(net) = 1
    /\ ~IsProbe(net[1])

\* C4: when the probe fails during NewMemoryClient the construction succeeds: a
\* client is returned that holds the supplied API key and host (the default
\* https://api.mem0.ai when none is given) and no session identifier; and an
\* operation on a client without session identifier starts with the probe.
C4_ProbeFailureNotFatal ==
    [][/\ (call'.op = "NewMemoryClient" /\ ~IsBlank(call'.options.APIKey)
            /\ ~ProbeAnswerOK(net'[1].out)) =>
             /\ ret'.err = NoErr
             /\ ret'.val /= NilV
             /\ client'.live
             /\ client'.apiKey = call'.options.APIKey
             /\ client'.host = IF call'.options.Host = NilV THEN "https://api.mem0.ai"
                               ELSE call'.options.Host.s
             /\ client'.telemetryID = ""
       /\ (call = Idle /\ call'.op \in PublicOps /\ client.telemetryID = "") =>
             (Len(net') >= 1 /\ IsProbe(net'[1]))]_vars

C4_Witness ==
    /\ call.op = "NewMemoryClient"
    /\ call.options.Host = NilV
    /\ net = <<Exchange(PingRequest, NoResponse)>>
    /\ client.live
    /\ client.host = "https://api.mem0.ai"
    /\ client.telemetryID = ""

\* the client's identity before the step: for NewMemoryClient, what the caller
\* supplied in ClientOptions
OrgBefore == IF call'.op = "NewMemoryClient" THEN call'.options.OrganizationID
             ELSE client.organizationID
ProjectBefore == IF call'.op = "NewMemoryClient" THEN call'.options.ProjectID
                 ELSE client.projectID

\* the successful probes of n whose response carries key k
Carrying(n, k) == {i \in OKProbes(n) : k \in DOMAIN n[i].out.json.m}

\* C5: a successful probe sets organizationID and projectID from its response
\* only for those of the two that were not already set (a caller-supplied id is
\* never overwritten), and sets telemetryID from user_email when present.
C5_ProbeFillsUnsetOnly ==
    [][(call = Idle /\ client'.live) =>
          /\ client'.organizationID =
                IF OrgBefore = NilV /\ Carrying(net', "org_id") /= {}
                THEN net'[First(Carrying(net', "org_id"))].out.json.m["org_id"]
                ELSE OrgBefore
          /\ client'.projectID =
                IF ProjectBefore = NilV /\ Carrying(net', "project_id") /= {}
                THEN net'[First(Carrying(net', "project_id"))].out.json.m["project_id"]
                ELSE ProjectBefore
          /\ \A i \in OKProbes(net') :
                (i = Last(OKProbes(net')) /\ HasEmail(net'[i].out)) =>
                    client'.telemetryID = net'[i].out.json.m["user_email"].s]_vars

\* the caller set the organization id only: the probe filled in the project id
C5_Witness ==
    /\ call.op = "NewMemoryClient"
    /\ call.options.OrganizationID = Str("o1")
    /\ call.options.ProjectID = NilV
    /\ Carrying(net, "org_id") = {1}
    /\ net[1].out.json.m["org_id"] = Str("po")
    /\ client.organizationID = Str("o1")
    /\ client.projectID = Str("pp")
    /\ client.telemetryID = "e@x"

\* C6: a MemoryOptions field left unset is never a key of the body built by
\* preparePayload nor of the query parameters built by prepareParams.
C6_UnsetOmitted ==
    \A f \in MemoryOptionsFields :
        options[f] = NilV =>
            /\ payload.built => WireName(f) \notin DOMAIN payload.v
            /\ params.built => WireName(f) \notin DOMAIN params.v

C6_Witness ==
    /\ payload.built
    /\ params.built
    /\ options["AgentID"] /= NilV
    /\ options["UserID"] = NilV
    /\ "agent_id" \in DOMAIN payload.v
    /\ "user_id" \notin DOMAIN payload.v
    /\ "user_id" \notin DOMAIN params.v

\* the request an operation issued for itself, after its probes
OwnRequests(n) == {n[i].req : i \in {j \in 1..Len(n) : ~IsProbe(n[j])}}

RequestKeys(req) ==
    DOMAIN req.query \cup (IF req.body.t = "map" THEN DOMAIN req.body.m ELSE {})

\* the options of the call, for the operations that take MemoryOptions
CallOptions ==
    IF call.op \in {"Add", "GetAll", "Search", "DeleteAll"} THEN call.options
    ELSE EmptyOptions

\* both ids, and both names, are given by the client and the call taken together
IdsPopulated ==
    /\ client.organizationID /= NilV \/ CallOptions["OrgID"] /= NilV
    /\ client.projectID /= NilV \/ CallOptions["ProjectID"] /= NilV

NamesPopulated ==
    /\ client.organizationName /= NilV \/ CallOptions["OrgName"] /= NilV
    /\ client.projectName /= NilV \/ CallOptions["ProjectName"] /= NilV

\* C7 as stated: when the client's identity and the call's options together
\* give both the id form and the name form, the request of Add, GetAll, Search,
\* DeleteAll, Users and DeleteUsers carries no org_name and no project_name key.
C7_IdsSuppressNames ==
    (/\ call.op \in {"Add", "GetAll", "Search", "DeleteAll", "Users", "DeleteUsers"}
     /\ IdsPopulated
     /\ NamesPopulated) =>
        \A req \in OwnRequests(net) :
            RequestKeys(req) \cap {"org_name", "project_name"} = {}

\* Add on a client configured by names, with the ids given in the call: all four
\* keys are in the body
C7_Witness ==
    /\ call.op = "Add"
    /\ client.organizationName = Str("on")
    /\ client.organizationID = NilV
    /\ call.options["OrgID"] = Str("call-o")
    /\ call.options["ProjectID"] = Str("call-p")
    /\ \E req \in OwnRequests(net) :
          {"org_name", "project_name", "org_id", "project_id"} \subseteq RequestKeys(req)

\* the value a request carries under key k, as sent: query values are text
Sent(req, k, v) ==
    \/ req.body.t = "map" /\ k \in DOMAIN req.body.m /\ req.body.m[k] = v
    \/ k \in DOMAIN req.query /\ v.t = "str" /\ req.query[k] = <<v.s>>

\* C8 as stated: in Add, GetAll and DeleteAll, when the call's options carry
\* their own org/project values, what the request sends under those keys is the
\* call's values, not the client's.
C8_CallOverridesClient ==
    call.op \in {"Add", "GetAll", "DeleteAll"} =>
        \A req \in OwnRequests(net) :
            \A f \in {"OrgID", "ProjectID", "OrgName", "ProjectName"} :
                (call.options[f] /= NilV /\ WireName(f) \in RequestKeys(req)) =>
                    Sent(req, WireName(f), call.options[f])

\* the client's ids were sent in place of the call's
C8_Witness ==
    /\ call.op = "DeleteAll"
    /\ call.options["OrgID"] = Str("call-o")
    /\ call.options["ProjectID"] = Str("call-p")
    /\ client.organizationID = Str("o1")
    /\ \E req \in OwnRequests(net) :
          req.query["org_id"] = <<"o1">> /\ req.query["project_id"] = <<"p1">>

\* the MemoryOptions fields prepareParams is to carry
ScalarParams ==
    {"UserID", "AgentID", "AppID", "RunID", "OrgName", "ProjectName", "OrgID",
     "ProjectID"}

C10_EverySetFieldSent ==
    payload.built =>
        /\ "messages" \in DOMAIN payload.v
        /\ payload.v["messages"] = Arr(messages)
        /\ \A f \in MemoryOptionsFields :
              options[f] /= NilV =>
                  /\ WireName(f) \in DOMAIN payload.v
                  /\ payload.v[WireName(f)] = options[f]

\* a set Timestamp is not in the payload
C10_Witness ==
    /\ payload.built
    /\ options["Timestamp"] = Num(0)
    /\ "timestamp" \notin DOMAIN payload.v

\* C11: GetAll issues POST /v2/memories/ exactly when the call's APIVersion is
\* v2; otherwise (v1 or unset) it issues GET /v1/memories/ with the call's
\* filters (user_id, agent_id, app_id, run_id) as query parameters.
C11_GetAllRouting ==
    call.op = "GetAll" =>
        \A req \in OwnRequests(net) :
            IF call.options["APIVersion"] = Str("v2")
            THEN req.method = "POST" /\ req.path = "/v2/memories/"
            ELSE /\ req.method = "GET"
                 /\ req.path = "/v1/memories/"
                 /\ req.body = NilV
                 /\ \A f \in {"UserID", "AgentID", "AppID", "RunID"} :
                       call.options[f] /= NilV =>
                           /\ WireName(f) \in DOMAIN req.query
                           /\ req.query[WireName(f)] = <<call.options[f].s>>

C11_Witness ==
    /\ call.op = "GetAll"
    /\ call.options["APIVersion"] = Str("v2")
    /\ \E req \in OwnRequests(net) : req.method = "POST" /\ req.path = "/v2/memories/"

\* C12: a GetAll request (v1 or v2) has page and page_size in its query string
\* when both Page and PageSize are set, and neither of them otherwise.
C12_PaginationTogether ==
    call.op = "GetAll" =>
        \A req \in OwnRequests(net) :
            IF call.options["Page"] /= NilV /\ call.options["PageSize"] /= NilV
            THEN /\ {"page", "page_size"} \subseteq DOMAIN req.query
                 /\ req.query["page"] = <<FormatInt(call.options["Page"].n)>>
                 /\ req.query["page_size"] = <<FormatInt(call.options["PageSize"].n)>>
            ELSE {"page", "page_size"} \cap DOMAIN req.query = {}

\* a v1 request with a filter and both pagination parameters
C12_Witness ==
    /\ call.op = "GetAll"
    /\ call.options["UserID"] = Str("u1")
    /\ \E req \in OwnRequests(net) :
          /\ req.path = "/v1/memories/"
          /\ DOMAIN req.query = {"user_id", "page", "page_size"}
          /\ req.query["page"] = <<"2">>
          /\ req.query["page_size"] = <<"10">>

\* the json tag of each search-only field of SearchOptions
SearchWireName(f) ==
    CASE f = "Limit" -> "limit"
      [] f = "EnableGraph" -> "enable_graph"
      [] f = "Threshold" -> "threshold"
      [] f = "TopK" -> "top_k"
      [] f = "OnlyMetadataBasedSearch" -> "only_metadata_based_search"
      [] f = "KeywordSearch" -> "keyword_search"
      [] f = "Fields" -> "fields"
      [] f = "Categories" -> "categories"
      [] f = "Rerank" -> "rerank"

\* C13 as stated: Search issues a POST to /v2/memories/search/ when APIVersion
\* is v2 and to /v1/memories/search/ otherwise, and its body has the query and
\* a key for every set field of the call's options, the MemoryOptions fields
\* and the search-only fields alike.
C13_SearchBodyHasEverySetField ==
    call.op = "Search" =>
        \A req \in OwnRequests(net) :
            /\ req.method = "POST"
            /\ req.path = IF call.options["APIVersion"] = Str("v2")
                          THEN "/v2/memories/search/" ELSE "/v1/memories/search/"
            /\ req.body.t = "map"
            /\ "query" \in DOMAIN req.body.m
            /\ req.body.m["query"] = Str("what do I like")
            /\ \A f \in MemoryOptionsFields :
                  call.options[f] /= NilV => WireName(f) \in DOMAIN req.body.m
            /\ \A f \in SearchFields :
                  call.search[f] /= NilV => SearchWireName(f) \in DOMAIN req.body.m

\* the ids given in the call's options are not in the body of Search
C13_Witness ==
    /\ call.op = "Search"
    /\ call.options["OrgID"] = Str("call-o")
    /\ call.options["ProjectID"] = Str("call-p")
    /\ \E req \in OwnRequests(net) : DOMAIN req.body.m = {"query"}

SearchOnlyWireNames ==
    {"limit", "threshold", "top_k", "only_metadata_based_search", "keyword_search",
     "fields", "categories", "rerank"}

\* C14: the search-only keys never appear in the body or the query string of a
\* request of Add, Update or GetAll, whatever options are passed.
C14_SearchOnlyKeysStayInSearch ==
    call.op \in {"Add", "Update", "GetAll"} =>
        \A req \in OwnRequests(net) : RequestKeys(req) \cap SearchOnlyWireNames = {}

\* GetAll was given search-only options and has issued its request
C14_Witness ==
    /\ call.op = "GetAll"
    /\ call.search["Limit"] = Num(5)
    /\ call.search["TopK"] = Num(3)
    /\ \E req \in OwnRequests(net) : DOMAIN req.query = {"user_id", "page", "page_size"}

\* C15: every Add request is a POST to /v1/memories/ whose body has the
\* messages; when the call's APIVersion is set the body has a version field
\* equal to it, whatever Version the caller supplied.
C15_AddMirrorsVersion ==
    call.op = "Add" =>
        \A req \in OwnRequests(net) :
            /\ req.method = "POST"
            /\ req.path = "/v1/memories/"
            /\ req.body.t = "map"
            /\ "messages" \in DOMAIN req.body.m
            /\ req.body.m["messages"] = Arr(call.messages)
            /\ call.options["APIVersion"] /= NilV =>
                  /\ "version" \in DOMAIN req.body.m
                  /\ req.body.m["version"] = call.options["APIVersion"]

\* the caller asked for Version v1 and APIVersion v2: v2 was sent as version
C15_Witness ==
    /\ call.op = "Add"
    /\ call.options["APIVersion"] = Str("v2")
    /\ call.options["Version"] = Str("v1")
    /\ \E req \in OwnRequests(net) : req.body.m["version"] = Str("v2")

RECURSIVE AsAPIError(_)
\* errors.As(err, &apiErr): the first APIError in err's chain, NoErr when none
AsAPIError(err) ==
    IF err.e = "APIError" THEN err
    ELSE IF err.e = "error" /\ err.inner /= NoErr THEN AsAPIError(err.inner)
    ELSE NoErr

NonSuccess(out) == out.k = "resp" /\ (out.status < 200 \/ out.status >= 300)

\* C16 as stated: a non-2xx response from any endpoint an operation uses (the
\* probe it runs implicitly and the per-entity DELETE of DeleteUsers included)
\* reaches the caller as an APIError whose StatusCode is the HTTP status and
\* whose Message and Body are the raw response body.
C16_StatusReachesCaller ==
    call.op \in PublicOps \cup {"Ping"} =>
        \A i \in 1..Len(net) :
            NonSuccess(net[i].out) =>
                /\ AsAPIError(ret.err).e = "APIError"
                /\ AsAPIError(ret.err).StatusCode = net[i].out.status
                /\ AsAPIError(ret.err).Message = net[i].out.raw
                /\ AsAPIError(ret.err).Body = net[i].out.raw

\* DeleteUsers met a 401 on a per-entity DELETE and returned status 0
C16_Witness ==
    /\ call.op = "DeleteUsers"
    /\ Len(net) >= 1
    /\ net[Len(net)].req.method = "DELETE"
    /\ net[Len(net)].out.k = "resp"
    /\ net[Len(net)].out.status = 401
    /\ ret.err.e = "APIError"
    /\ ret.err.StatusCode = 0
    /\ ret.err.Body = ""

\* C17 as stated: a transport failure (no HTTP response) is returned by every
\* operation as an APIError with StatusCode 0.
C17_TransportFailureIsAPIError ==
    call.op \in PublicOps \cup {"Ping"} =>
        \A i \in 1..Len(net) :
            net[i].out.k = "none" =>
                /\ AsAPIError(ret.err).e = "APIError"
                /\ AsAPIError(ret.err).StatusCode = 0

\* Get met a connection failure and returned a plain wrapped error
C17_Witness ==
    /\ call.op = "Get"
    /\ Len(net) >= 1
    /\ ~IsProbe(net[Len(net)])
    /\ net[Len(net)].out.k = "none"
    /\ ret.err.e = "error"
    /\ ret.err.prefix = "request failed: "
    /\ AsAPIError(ret.err) = NoErr

\* the positions in n of the per-entity DELETE requests
Deletes(n) == {i \in 1..Len(n) : n[i].req.method = "DELETE"}

\* a 2xx answer with a JSON body
AnswerOK(out) ==
    out.k = "resp" /\ out.status >= 200 /\ out.status < 300 /\ out.json /= Invalid

\* the positions in n of GET /v1/entities/ answered with a list of entities
Listings(n) ==
    {i \in 1..Len(n) :
        /\ n[i].req.path = "/v1/entities/"
        /\ AnswerOK(n[i].out)
        /\ n[i].out.json.t = "map"
        /\ "results" \in DOMAIN n[i].out.json.m
        /\ n[i].out.json.m["results"].t = "arr"}

\* the entities of the listing at position i
Listed(n, i) == n[i].out.json.m["results"].a

EntityPath(type, name) == "/v2/entities/" \o type \o "/" \o name \o "/"

Unfiltered(dp) ==
    dp.UserID = NilV /\ dp.AgentID = NilV /\ dp.AppID = NilV /\ dp.RunID = NilV

\* C18: DeleteUsers with no filter, the entity list holding N >= 1 entities and
\* every DELETE answered with success, issues exactly N DELETE requests, one per
\* listed entity, and returns "All users, agents, apps and runs deleted.";
\* with a user id it issues exactly one DELETE, for that user, and returns
\* "Entity deleted successfully.".
C18_DeleteCounts ==
    (call.op = "DeleteUsers" /\ \A d \in Deletes(net) : AnswerOK(net[d].out)) =>
        /\ \A i \in Listings(net) :
              (Unfiltered(call.params) /\ Len(Listed(net, i)) >= 1) =>
                  /\ Len(net) = i + Len(Listed(net, i))
                  /\ Deletes(net) = (i + 1)..Len(net)
                  /\ \A k \in 1..Len(Listed(net, i)) :
                        net[i + k].req.path =
                            EntityPath(Listed(net, i)[k].m["type"].s,
                                       Listed(net, i)[k].m["name"].s)
                  /\ ret.err = NoErr
                  /\ ret.val = Map([message |->
                                      Str("All users, agents, apps and runs deleted.")])
        /\ (call.params.UserID /= NilV
            /\ \A i \in 1..Len(net) : IsProbe(net[i]) => ProbeAnswerOK(net[i].out)) =>
              /\ Cardinality(Deletes(net)) = 1
              /\ net[Len(net)].req.method = "DELETE"
              /\ net[Len(net)].req.path = EntityPath("user", call.params.UserID.s)
              /\ ret.err = NoErr
              /\ ret.val = Map([message |-> Str("Entity deleted successfully.")])

\* two entities were listed and two DELETEs issued
C18_Witness ==
    /\ call.op = "DeleteUsers"
    /\ Unfiltered(call.params)
    /\ \E i \in Listings(net) : Len(Listed(net, i)) = 2
    /\ Cardinality(Deletes(net)) = 2
    /\ ret.err = NoErr

\* C19 as stated: DeleteUsers with no filter and an empty entity list fails with
\* a ValidationError and issues no DELETE request.
C19_EmptyTargetIsValidationError ==
    (call.op = "DeleteUsers" /\ Unfiltered(call.params)) =>
        \A i \in Listings(net) :
            Len(Listed(net, i)) = 0 =>
                /\ ret.err.e = "ValidationError"
                /\ Deletes(net) = {}

\* the empty list gave a plain error value
C19_Witness ==
    /\ call.op = "DeleteUsers"
    /\ Unfiltered(call.params)
    /\ \E i \in Listings(net) : Len(Listed(net, i)) = 0
    /\ Deletes(net) = {}
    /\ ret.err = Errorf("no entities to delete", NoErr)

\* the target list of the DeleteUsers call in progress
Targets ==
    IF Unfiltered(call.params)
    THEN IF Listings(net) = {} THEN <<>>
         ELSE [k \in 1..Len(Listed(net, Last(Listings(net)))) |->
                 [type |-> Listed(net, Last(Listings(net)))[k].m["type"].s,
                  name |-> Listed(net, Last(Listings(net)))[k].m["name"].s]]
    ELSE Filtered(call.params)

\* C20: DeleteUsers issues its DELETE requests one at a time in target-list
\* order; when the request for the k-th entity fails it is the last request of
\* the call (no DELETE for a later entity, nothing undone for the earlier
\* ones), and the call returns an APIError whose message names that entity's
\* type and name.
C20_AbortAtFirstFailure ==
    call.op = "DeleteUsers" =>
        /\ Cardinality(Deletes(net)) <= Len(Targets)
        /\ Deletes(net) = (Len(net) - Cardinality(Deletes(net)) + 1)..Len(net)
        /\ \A k \in 1..Cardinality(Deletes(net)) :
              LET x == net[Len(net) - Cardinality(Deletes(net)) + k] IN
                /\ x.req.path = EntityPath(Targets[k].type, Targets[k].name)
                /\ ~AnswerOK(x.out) =>
                      /\ k = Cardinality(Deletes(net))
                      /\ ret.val = NilV
                      /\ ret.err.e = "APIError"
                      /\ ret.err.Message =
                            "Failed to delete " \o Targets[k].type \o " "
                                \o Targets[k].name \o ": "
                                \o ErrorString(fetchWithErrorHandling(x.out).err)

\* the DELETE for the second of two listed entities failed
C20_Witness ==
    /\ call.op = "DeleteUsers"
    /\ Len(Targets) = 2
    /\ Cardinality(Deletes(net)) = 2
    /\ AnswerOK(net[Len(net) - 1].out)
    /\ net[Len(net)].out.k = "none"
    /\ ret.err.e = "APIError"

(***************************************************************************)
(* C21  batch operations: one request, a string result                     *)
(***************************************************************************)
\* the positions in n of the requests that are not probes
OwnAt(n) == {i \in 1..Len(n) : ~IsProbe(n[i])}

\* the entries of a batch body, or <<>> when the body has no "memories" array
BatchEntries(req) ==
    IF req.body.t = "map" /\ DOMAIN req.body.m = {"memories"}
       /\ req.body.m["memories"].t = "arr"
    THEN req.body.m["memories"].a
    ELSE <<>>

\* C21: BatchUpdate and BatchDelete issue at most one request of their own, a
\* PUT resp. DELETE to /v1/batch/ whose "memories" array has one entry per
\* input item, in order; they issue it whenever the probe let them through;
\* and a successful answer becomes a string: the bare string itself, the
\* string "message" field of an object, and otherwise the fixed fallback.
C21_BatchSingleRequestAndString ==
    call.op \in {"BatchUpdate", "BatchDelete"} =>
        /\ Cardinality(OwnAt(net)) <= 1
        /\ (ret.err = NoErr => Cardinality(OwnAt(net)) = 1)
        /\ \A i \in OwnAt(net) :
            /\ net[i].req.method = (IF call.op = "BatchUpdate" THEN "PUT" ELSE "DELETE")
            /\ net[i].req.path = "/v1/batch/"
            /\ net[i].req.body.t = "map"
            /\ DOMAIN net[i].req.body.m = {"memories"}
            /\ net[i].req.body.m["memories"].t = "arr"
            /\ Len(BatchEntries(net[i].req)) = Len(call.memoryIDs)
            /\ \A j \in 1..Len(call.memoryIDs) :
                  BatchEntries(net[i].req)[j] =
                      IF call.op = "BatchUpdate"
                      THEN Map([memory_id |-> Str(call.memoryIDs[j]),
                                text |-> Str("new text")])
                      ELSE Map([k \in {"memory_id"} |-> Str(call.memoryIDs[j])])
            /\ AnswerOK(net[i].out) =>
                /\ ret.err = NoErr
                /\ ret.val.t = "str"
                /\ ret.val.s =
                     IF net[i].out.json.t = "str" THEN net[i].out.json.s
                     ELSE IF /\ net[i].out.json.t = "map"
                             /\ "message" \in DOMAIN net[i].out.json.m
                             /\ net[i].out.json.m["message"].t = "str"
                          THEN net[i].out.json.m["message"].s
                          ELSE IF call.op = "BatchUpdate" THEN "Batch update completed"
                               ELSE "Batch delete completed"

\* a two-item BatchDelete answered with an object whose message is no string
C21_Witness ==
    /\ call.op = "BatchDelete"
    /\ Len(call.memoryIDs) = 2
    /\ \E i \in OwnAt(net) :
          /\ AnswerOK(net[i].out)
          /\ net[i].out.json.t = "map"
          /\ Len(BatchEntries(net[i].req)) = 2
    /\ ret.val = Str("Batch delete completed")

(***************************************************************************)
(* C22  no operation retries                                               *)
(***************************************************************************)
\* the exchange at position i of n did not give its caller what it asked for
FailedAt(n, i) ==
    IF IsProbe(n[i]) THEN ~ProbeAnswerOK(n[i].out) ELSE ~AnswerOK(n[i].out)

\* C22: within one call of any operation other than DeleteUsers there is at
\* most one probe and at most one request of the operation's own, and an
\* exchange that failed is the last one of the call and the call returns an
\* error: nothing is issued again after a failure.
C22_NoRetry ==
    call.op \in (PublicOps \cup {"Ping"}) \ {"DeleteUsers"} =>
        /\ Cardinality(OwnAt(net)) <= 1
        /\ Cardinality({i \in 1..Len(net) : IsProbe(net[i])}) <= 1
        /\ \A i \in 1..Len(net) :
              FailedAt(net, i) => (i = Len(net) /\ ret.err /= NoErr)

\* a Get whose probe succeeded and whose own request found no server
C22_Witness ==
    /\ call.op = "Get"
    /\ Len(net) = 2
    /\ IsProbe(net[1]) /\ ProbeAnswerOK(net[1].out)
    /\ net[2].out = NoResponse
    /\ ret.err /= NoErr

(***************************************************************************)
(* C24  the event invariant of history entries                             *)
(***************************************************************************)
\* field k of a decoded object is present: the key is there and is not null
Present(v, k) == k \in DOMAIN v.m /\ v.m[k] /= NilV

\* the event invariant of one history entry
EventInvariant(h) ==
    /\ (Present(h, "event") /\ h.m["event"] = Str("ADD")) =>
            (~Present(h, "old_memory") /\ Present(h, "new_memory"))
    /\ (Present(h, "event") /\ h.m["event"] = Str("DELETE")) =>
            (Present(h, "old_memory") /\ ~Present(h, "new_memory"))
    /\ (Present(h, "event") /\ h.m["event"] = Str("UPDATE")) =>
            (Present(h, "old_memory") /\ Present(h, "new_memory"))

\* C24: every history entry History returns satisfies the event invariant
\* (ADD: no old_memory and a new_memory; DELETE: an old_memory and no
\* new_memory; UPDATE: both); an answer with an entry that violates it is
\* rejected with an error and never returned.
C24_HistoryEventInvariant ==
    (call.op = "History" /\ ret.err = NoErr) =>
        /\ ret.val.t = "arr"
        /\ \A i \in 1..Len(ret.val.a) : EventInvariant(ret.val.a[i])

\* History got an ADD entry with an old_memory from the server
C24_Witness ==
    /\ call.op = "History"
    /\ \E i \in OwnAt(net) :
          /\ AnswerOK(net[i].out)
          /\ net[i].out.json.t = "arr"
          /\ \E j \in 1..Len(net[i].out.json.a) :
                /\ net[i].out.json.a[j].t = "map"
                /\ ~EventInvariant(net[i].out.json.a[j])

(***************************************************************************)
(* C25  the body of a v2 GetAll                                            *)
(***************************************************************************)
\* C25: the request of a GetAll called with APIVersion v2 has an object as its
\* body whose keys are among org_id and project_id: whatever user, agent, app
\* or run id, metadata, filters, org_name or project_name the call's options
\* or the client carry, none of them is a key of the body.
C25_V2BodyOnlyOrgAndProject ==
    (call.op = "GetAll" /\ call.options["APIVersion"] = Str("v2")) =>
        \A req \in OwnRequests(net) :
            /\ req.body.t = "map"
            /\ DOMAIN req.body.m \subseteq {"org_id", "project_id"}

\* a v2 GetAll called with a user id, metadata and filters on a client that
\* has an organization id or name, whose request went out
C25_Witness ==
    /\ call.op = "GetAll"
    /\ call.options["APIVersion"] = Str("v2")
    /\ call.options["UserID"] /= NilV
    /\ call.options["Metadata"] /= NilV
    /\ call.options["Filters"] /= NilV
    /\ (client.organizationID /= NilV \/ client.organizationName /= NilV)
    /\ OwnRequests(net) /= {}

(***************************************************************************)
(* C26  a response of the wrong structure is a decode error                *)
(***************************************************************************)
\* the operations whose declared result is a list, resp. a single object
ArrayOps == {"Add", "Update", "GetAll", "Search", "History"}
ObjectOps == {"Get", "Delete", "DeleteAll", "Users"}

\* the object v has a field of the wrong JSON type for the result of op: an id
\* or message that is no string, a count that is no number
MistypedField(v, op) ==
    \/ \E k \in DOMAIN v.m \cap (IF op \in {"Delete", "DeleteAll"} THEN {"message"}
                                 ELSE IF op = "Users" THEN {} ELSE {"id"}) :
            v.m[k].t \notin {"str", "nil"}
    \/ op = "Users" /\ "count" \in DOMAIN v.m /\ v.m["count"].t \notin {"num", "nil"}

\* the JSON value v does not have the structure of the declared result of op
WrongStructure(v, op) ==
    IF op \in ArrayOps
    THEN \/ v.t \notin {"arr", "nil"}
         \/ /\ v.t = "arr"
            /\ \E i \in 1..Len(v.a) :
                  \/ v.a[i].t \notin {"map", "nil"}
                  \/ v.a[i].t = "map" /\ MistypedField(v.a[i], op)
    ELSE \/ v.t \notin {"map", "nil"}
         \/ v.t = "map" /\ MistypedField(v, op)

\* C26: when the operation's request is answered 2xx with JSON that does not
\* have the structure of the declared result (an object or a scalar where a
\* list is expected, a list where an object is expected, a field of the wrong
\* type), the operation returns the decode error and no result.
C26_WrongStructureIsDecodeError ==
    call.op \in ArrayOps \cup ObjectOps =>
        \A i \in OwnAt(net) :
            (AnswerOK(net[i].out) /\ WrongStructure(net[i].out.json, call.op)) =>
                /\ ret.err = Errorf("failed to unmarshal response: ", JSONError)
                /\ ret.val = NilV

\* Search got a list whose entry has a number as id, History got an object
C26_Witness ==
    \/ /\ call.op = "Search"
       /\ \E i \in OwnAt(net) :
             /\ AnswerOK(net[i].out)
             /\ net[i].out.json.t = "arr"
             /\ WrongStructure(net[i].out.json, "Search")
       /\ ret.val = NilV
       /\ ret.err /= NoErr
    \/ /\ call.op = "History"
       /\ \E i \in OwnAt(net) : AnswerOK(net[i].out) /\ net[i].out.json.t = "map"
       /\ ret.val = NilV
       /\ ret.err /= NoErr

(***************************************************************************)
(* C27  a probe refused by its content                                     *)
(***************************************************************************)
\* a probe answer that was decoded and is no object or has no status "ok"
ProbeRefused(out) == AnswerOK(out) /\ ~ProbeAnswerOK(out)

\* the message field of a probe answer, "API Key is invalid" when it has none
MessageOrDefault(v) ==
    IF v.t = "map" /\ "message" \in DOMAIN v.m /\ v.m["message"].t = "str"
       /\ v.m["message"].s /= ""
    THEN v.m["message"].s
    ELSE "API Key is invalid"

\* the client's organization id, project id and session identifier
Identity(c) == <<c.organizationID, c.projectID, c.telemetryID>>

\* the call that starts in this step begins with a probe the server refuses
RefusedProbeStep ==
    /\ call = Idle
    /\ call'.op \in PublicOps \cup {"Ping"}
    /\ Len(net') >= 1
    /\ IsProbe(net'[1])
    /\ ProbeRefused(net'[1].out)

\* C27 as stated: a probe whose answer is no JSON object or has no status "ok"
\* returns an APIError with StatusCode 0 whose message is the answer's message
\* field, or "API Key is invalid" when there is none, and leaves the client's
\* organization id, project id and session identifier as they were.
C27_RefusedProbeMessage ==
    [][RefusedProbeStep =>
          /\ ret'.err = NewAPIError(MessageOrDefault(net'[1].out.json), 0, "")
          /\ Identity(client') = Identity(client)]_vars

\* C27 amended: the message is "Invalid response format from ping endpoint"
\* when the answer is no JSON object, and the answer's message field (or "API
\* Key is invalid") only when it is an object without status "ok"; StatusCode
\* is 0 and the client's identity is left as it was in both cases.
C27_RefusedProbeIsAPIError ==
    [][RefusedProbeStep =>
          /\ ret'.err =
                NewAPIError(IF net'[1].out.json.t = "map"
                            THEN MessageOrDefault(net'[1].out.json)
                            ELSE "Invalid response format from ping endpoint",
                            0, "")
          /\ Len(net') = 1
          /\ Identity(client') = Identity(client)]_vars

\* an operation stopped at a probe answered with status "error" and identity
\* fields, on a client that has no identity yet
C27_Witness ==
    /\ call.op \in PublicOps
    /\ Len(net) = 1
    /\ IsProbe(net[1])
    /\ ProbeRefused(net[1].out)
    /\ net[1].out.json.t = "map"
    /\ "org_id" \in DOMAIN net[1].out.json.m
    /\ ret.err = NewAPIError("API Key is invalid", 0, "")
    /\ Identity(client) = <<NilV, NilV, "">>

(***************************************************************************)
(* C29  DeleteUsers with several ids                                       *)
(***************************************************************************)
\* how many of the four ids the parameters carry
IdsGiven(dp) ==
    Cardinality({f \in {"UserID", "AgentID", "AppID", "RunID"} : dp[f] /= NilV})

\* the path of the one entity the priority user, agent, app, run selects
PriorityPath(dp) ==
    CASE dp.UserID /= NilV -> EntityPath("user", dp.UserID.s)
      [] dp.UserID = NilV /\ dp.AgentID /= NilV -> EntityPath("agent", dp.AgentID.s)
      [] dp.UserID = NilV /\ dp.AgentID = NilV /\ dp.AppID /= NilV ->
            EntityPath("app", dp.AppID.s)
      [] OTHER -> EntityPath("run", dp.RunID.s)

\* C29: DeleteUsers given more than one of UserID, AgentID, AppID, RunID never
\* fetches the entity list and issues at most one DELETE, which is for the
\* entity chosen by the priority user, agent, app, run; it issues that DELETE
\* whenever no probe fails, and when the DELETE succeeds the call returns
\* "Entity deleted successfully.".
C29_PriorityTarget ==
    (call.op = "DeleteUsers" /\ IdsGiven(call.params) > 1) =>
        /\ \A i \in 1..Len(net) : net[i].req.path /= "/v1/entities/"
        /\ Cardinality(Deletes(net)) <= 1
        /\ (\A i \in 1..Len(net) : IsProbe(net[i]) => ProbeAnswerOK(net[i].out)) =>
                Cardinality(Deletes(net)) = 1
        /\ \A i \in Deletes(net) :
              /\ net[i].req.path = PriorityPath(call.params)
              /\ AnswerOK(net[i].out) =>
                    /\ ret.err = NoErr
                    /\ ret.val = Map([message |-> Str("Entity deleted successfully.")])

\* an agent, an app and a run id were given and the agent was deleted
C29_Witness ==
    /\ call.op = "DeleteUsers"
    /\ call.params.UserID = NilV
    /\ IdsGiven(call.params) = 3
    /\ \E i \in Deletes(net) :
          /\ net[i].req.path = EntityPath("agent", call.params.AgentID.s)
          /\ AnswerOK(net[i].out)
    /\ ret.err = NoErr

(***************************************************************************)
(* C30  a client configured by names, after a probe gave it ids            *)
(***************************************************************************)
\* the operations whose request is built from the client's identity
IdentityOps == {"Add", "GetAll", "Search", "DeleteAll", "Users", "DeleteUsers"}

\* C30: on a client configured with the organization and project names, once
\* the client holds both ids (for a client configured by names only they can
\* only come from a probe answer carrying org_id and project_id), every
\* request of Add, GetAll, Search, DeleteAll, Users and DeleteUsers carries the
\* client's org_id and project_id and neither org_name nor project_name: the
\* configured names are on a request only while the ids are not both set.
C30_ProbedIdsReplaceNames ==
    (/\ call.op \in IdentityOps
     /\ client.organizationName /= NilV
     /\ client.projectName /= NilV) =>
        \A req \in OwnRequests(net) :
            /\ (client.organizationID /= NilV /\ client.projectID /= NilV) =>
                  /\ Sent(req, "org_id", client.organizationID)
                  /\ Sent(req, "project_id", client.projectID)
                  /\ RequestKeys(req) \cap {"org_name", "project_name"} = {}
            /\ (Sent(req, "org_name", client.organizationName)
                \/ Sent(req, "project_name", client.projectName)) =>
                  (client.organizationID = NilV \/ client.projectID = NilV)

\* Add on a client configured as on/pn whose ids po/pp came from a probe: the
\* body has the ids and no name
C30_Witness ==
    /\ call.op = "Add"
    /\ client.organizationName = Str("on")
    /\ client.projectName = Str("pn")
    /\ client.organizationID = Str("po")
    /\ client.projectID = Str("pp")
    /\ \E req \in OwnRequests(net) :
          /\ Sent(req, "org_id", Str("po"))
          /\ Sent(req, "project_id", Str("pp"))
          /\ "org_name" \notin RequestKeys(req)

(***************************************************************************)
(* C23  two operations racing the probe                                    *)
(***************************************************************************)
\* both goroutines have returned
AllDone == call.g[1].pc = "done" /\ call.g[2].pc = "done"

\* both goroutines probed, both probes succeeded and were applied to the client
BothApplied == AllDone /\ call.g[1].pong /= NilV /\ call.g[2].pong /= NilV

\* the identity fields of a probe answer
PongIdentity(v) == <<v.m["org_id"], v.m["project_id"], v.m["user_email"].s>>

\* C23 as stated: after two operations raced on a client without session
\* identifier and identity, and both applied their probe answer, the client's
\* organization id, project id and session identifier are those of the answer
\* that was written last.
C23_LastWriterWins ==
    (/\ call.op = "race"
     /\ BothApplied
     /\ call.before.organizationID = NilV
     /\ call.before.projectID = NilV
     /\ call.last /= 0) =>
        Identity(client) = PongIdentity(call.g[call.last].pong)

\* C23 amended: both operations run to completion, with at most one probe
\* each; and when both probes were applied and their answers carry the same
\* identity, the client ends with the session identifier of the answers and,
\* for each of organization id and project id, with the value the caller
\* configured or else the one of the answers.  (When the answers differ the
\* client may end with ids of the first and the session identifier of the last,
\* as C23_LastWriterWins shows.)
C23_RaceCompletes ==
    /\ <>(call.op = "race" /\ AllDone)
    /\ [](call.op = "race" =>
            /\ Cardinality({i \in 1..Len(net) : IsProbe(net[i])}) <= 2
            /\ (BothApplied /\ call.g[1].pong = call.g[2].pong) =>
                  /\ client.telemetryID = call.g[1].pong.m["user_email"].s
                  /\ client.organizationID =
                        IF call.before.organizationID /= NilV
                        THEN call.before.organizationID
                        ELSE call.g[1].pong.m["org_id"]
                  /\ client.projectID =
                        IF call.before.projectID /= NilV
                        THEN call.before.projectID
                        ELSE call.g[1].pong.m["project_id"])

\* both operations probed, got different answers, and both returned a memory;
\* the client has the ids of one answer and the session identifier of the other
C23_Witness ==
    /\ call.op = "race"
    /\ BothApplied
    /\ call.g[1].pong /= call.g[2].pong
    /\ Cardinality({i \in 1..Len(net) : IsProbe(net[i])}) = 2
    /\ ret[1].err = NoErr /\ ret[2].err = NoErr
    /\ ret[1].val /= NilV /\ ret[2].val /= NilV
    /\ \E g \in 1..2 :
          /\ client.organizationID = call.g[g].pong.m["org_id"]
          /\ client.telemetryID = call.g[3 - g].pong.m["user_email"].s

(***************************************************************************)
(* C28  DeleteUsers without a filter is safe to call again                 *)
(***************************************************************************)
\* the path of the DELETE request for entity u of a listing
PathOf(u) == EntityPath(u.m["type"].s, u.m["name"].s)

\* the entities of the original list that earlier calls have deleted
Gone == {call.original[k] : k \in 1..Len(call.original)}
            \ {call.before[k] : k \in 1..Len(call.before)}

\* C28: a call of DeleteUsers without a filter, made after earlier calls
\* failed, takes its targets from a listing fetched in this very call: it
\* issues DELETE requests only for entities the server still held when the call
\* began, none for an entity an earlier call has deleted; and once a call
\* succeeds, no entity of the original list is left on the server.
C28_RetryIsSafe ==
    (call.op = "retry" /\ call.attempts >= 1) =>
        /\ \A i \in Deletes(net) :
              /\ \E k \in 1..Len(call.before) : net[i].req.path = PathOf(call.before[k])
              /\ \A u \in Gone : net[i].req.path /= PathOf(u)
              /\ \E j \in 1..(i - 1) :
                    net[j].req.method = "GET" /\ net[j].req.path = "/v1/entities/"
        /\ ret.err = NoErr => call.server = <<>>

\* an earlier call deleted one of two entities and failed on the other; this
\* call listed again, deleted the one that was left and succeeded
C28_Witness ==
    /\ call.op = "retry"
    /\ call.attempts >= 2
    /\ Len(call.original) = 2
    /\ Len(call.before) = 1
    /\ Cardinality(Deletes(net)) = 1
    /\ ret.err = NoErr
    /\ call.server = <<>>

====
